---- MODULE Spec2Model ----
(***************************************************************************)
(* Model of the local EPG/channel store of 3DLL-IPTV: the SQLite Storage   *)
(* wrapper (storage.py), the XMLTV decoder (epg_xmltv.py), the EPG update  *)
(* path of the main window (ui/main_window.py), the bridge to the npm      *)
(* guide grabber (epg_npm_bridge.py), and the editor's probe run           *)
(* (workers/probe_worker.py).                                              *)
(*                                                                         *)
(* The module holds several specifications over disjoint groups of         *)
(* variables; each specification keeps the other groups at their initial   *)
(* value.                                                                  *)
(*   SpecStore      playlists and channels, one writer and one reader      *)
(*   SpecUpsert     upsert_epg_programs step by step, with a reader        *)
(*   SpecQuery      get_now_next and list_epg_programs over stored tables  *)
(*   SpecEpgUpdate  the 'update EPG' runs of the main window               *)
(*   SpecParse      iter_programs over XMLTV documents                     *)
(*   SpecSelect     find_sites_for_tvg_ids (SpecSelectFair: with fairness) *)
(*   SpecGenerate   generate_xmltv_for_tvg_ids and its grabber processes   *)
(*   SpecMerge      merge_xmltv over grabbed files                         *)
(*   SpecDelete     delete_playlist over stores with playlists and guide   *)
(*   SpecLookup     the tvg_id comparison of the two guide queries         *)
(*   SpecExport     export of the editor's channels and their reload       *)
(*   SpecConn       the connection of each public Storage operation        *)
(*   SpecProbe      the probe run of the editor and its worker thread      *)
(*   SpecEpgRun     the signals of the 'update EPG' runs (FairEpgRun:      *)
(*                  with fairness)                                         *)
(***************************************************************************)
EXTENDS Integers, Sequences, FiniteSets, TLC

VARIABLES
    \* ---- playlists / channels tables (storage.py) ----
    playlists,   \* committed ids of the rows of table playlists
    seq,         \* sqlite_sequence of playlists (AUTOINCREMENT never reuses an id)
    channels,    \* committed rows of table channels, in id order
    wr,          \* the connection of the replace_channels call in flight
    got,         \* what a get_channels call on another connection has read
    lastDelete,  \* ghost: the last delete_playlist call and the rows its cascade removed
    \* ---- epg_programs table (storage.py) ----
    epg,         \* committed rows of table epg_programs, in id order
    up,          \* the connection of the upsert_epg_programs call in flight
    rd,          \* what a list_epg_programs call on another connection has read
    qr,          \* the last query and its result
    \* ---- 'update EPG' (ui/main_window.py) ----
    running,     \* background runs of on_epg_update still downloading / decoding
    queue,       \* _load_epg_snapshot calls posted to the main thread
    main,        \* the main thread inside _load_epg_snapshot
    report,      \* the last epg_ok / epg_fail emitted by _load_epg_snapshot
    \* ---- XMLTV decoder (epg_xmltv.py) ----
    doc,         \* the elements of the document, in "end" event order
    pos,         \* the element iter_programs is at
    out,         \* the records yielded so far
    pst,         \* "iter", "done" (exhausted) or "raised" (an exception left the generator)
    calls,       \* the _parse_xmltv_dt calls made for the last element
    \* ---- npm bridge (epg_npm_bridge.py) ----
    sel,         \* the find_sites_for_tvg_ids call: its inputs and locals
    gen,         \* the generate_xmltv_for_tvg_ids call: its locals and outcome
    proc,        \* the grabber process of the npm_grab_site call in flight
    mrg,         \* the merge_xmltv call: its inputs and locals
    \* ---- editor and probe (ui/main_window.py, workers/probe_worker.py) ----
    edit,        \* the main window: self.channels, the probe thread it holds, its buttons
    probe,       \* the ProbeWorker of the run in flight: its snapshot and progress
    sigq,        \* signals emitted by worker threads, queued for the main thread
    \* ---- connections (storage.py) ----
    db,          \* the public Storage operation in flight and the connections it holds
    \* ---- signals of 'update EPG' (ui/main_window.py) ----
    runs,        \* the on_epg_update runs started so far: where each one is,
                 \* and the epg_ok / epg_fail emitted for it
    mainq,       \* calls and signals queued for the main thread, in order
    btn          \* btn_epg_update.isEnabled()

storeVars == <<playlists, seq, channels, wr, got, lastDelete>>
epgVars == <<epg, up, rd, qr>>
updVars == <<running, queue, main, report>>
parseVars == <<doc, pos, out, pst, calls>>
bridgeVars == <<sel, gen, proc, mrg>>
uiVars == <<edit, probe, sigq, db>>
runVars == <<runs, mainq, btn>>

vars == <<storeVars, epgVars, updVars, parseVars, bridgeVars, uiVars, runVars>>

nonStoreVars == <<epgVars, updVars, parseVars, bridgeVars, uiVars, runVars>>
nonEpgVars == <<storeVars, updVars, parseVars, bridgeVars, uiVars, runVars>>
nonBridgeVars == <<storeVars, epgVars, updVars, parseVars, uiVars, runVars>>
nonRunVars == <<storeVars, epgVars, updVars, parseVars, bridgeVars, uiVars>>
nonUiVars == <<storeVars, epgVars, updVars, parseVars, bridgeVars, runVars>>

\* ------------------------------------------------------------------ bounds
MaxChans == 2
MaxProgs == 3      \* programs handed to one upsert_epg_programs call
MaxChunk == 2      \* chunk sizes tried, 1..MaxChunk
MaxRows == 4       \* rows of epg_programs
MaxStored == 3     \* rows of epg_programs the queries run over
MaxLimit == 2      \* limits tried, 0..MaxLimit and the default
MaxRuns == 2       \* 'update EPG' runs started and not yet loaded
MaxDecoded == 1    \* programs decoded by one run
MaxElems == 2      \* elements of one XMLTV document
MaxSites == 3      \* channels files under sites/
MaxFiles == 2      \* files handed to one merge_xmltv call
MaxLeaked == 2     \* connections left open that are counted
MaxProbed == 2     \* channels of the editor when a probe run starts
MaxImported == 1   \* channels brought in by imports and merges during a run
MaxStarted == 2    \* 'update EPG' runs started in one session
MaxProbeRuns == 2  \* probe runs started

\* ----------------------------------------------------------------- helpers
NoneVal == "<None>"

RECURSIVE SelectSeq2(_, _)
\* the rows of s whose playlist_id is pid, order kept
SelectSeq2(s, pid) ==
    IF s = <<>> THEN <<>>
    ELSE IF Head(s).playlist_id = pid
         THEN <<Head(s)>> \o SelectSeq2(Tail(s), pid)
         ELSE SelectSeq2(Tail(s), pid)

RECURSIVE RejectSeq(_, _)
\* the rows of s whose playlist_id is not pid, order kept
RejectSeq(s, pid) ==
    IF s = <<>> THEN <<>>
    ELSE IF Head(s).playlist_id = pid
         THEN RejectSeq(Tail(s), pid)
         ELSE <<Head(s)>> \o RejectSeq(Tail(s), pid)

SeqsUpTo(S, n) == UNION {[1..k -> S] : k \in 0..n}

\* =========================================================================
\* storage.py: playlists + channels
\* =========================================================================

\* the channel dicts a caller hands to replace_channels: one with its five
\* fields, one with missing, None and empty fields (a missing or None field
\* is the value NoneVal)
ChanFull ==
    [name |-> "a", group |-> "g", tvg_id |-> "t", url |-> "u", extinf |-> "e"]
ChanSparse ==
    [name |-> NoneVal, group |-> NoneVal, tvg_id |-> "", url |-> "v",
     extinf |-> NoneVal]
ChanDicts == {ChanFull, ChanSparse}

\* the playlist ids the callers use; AUTOINCREMENT hands them out in order
PlaylistIds == {1, 2}

\* (c.get("name") or "")
OrEmpty(v) == IF v = NoneVal THEN "" ELSE v

\* the tuple replace_channels builds for one dict
ChannelRowWithoutGroup(pid, c) ==
    [playlist_id |-> pid, name |-> OrEmpty(c.name), group_title |-> "",
     tvg_id |-> OrEmpty(c.tvg_id), url |-> OrEmpty(c.url),
     extinf |-> OrEmpty(c.extinf)]
ChannelRow(pid, c) ==
    [playlist_id |-> pid, name |-> OrEmpty(c.name),
     group_title |-> OrEmpty(c.group), tvg_id |-> OrEmpty(c.tvg_id),
     url |-> OrEmpty(c.url), extinf |-> OrEmpty(c.extinf)]

ChannelRows(pid, cs) == [i \in 1..Len(cs) |-> ChannelRow(pid, cs[i])]

\* PRAGMA foreign_keys=ON of _connect
ForeignKeysOff == FALSE
ForeignKeysOn == TRUE

\* sqlite3.connect with the default isolation_level: a DELETE or INSERT opens
\* a transaction that only con.commit() makes visible to other connections
AutoCommit == FALSE
ImplicitTransaction == TRUE

\* SELECT ... FROM channels WHERE playlist_id=? ORDER BY id ASC, as field maps
GetChannelsOf(table, pid) ==
    LET rows == SelectSeq2(table, pid)
    IN  [i \in 1..Len(rows) |->
            [name |-> OrEmpty(rows[i].name), group |-> OrEmpty(rows[i].group_title),
             tvg_id |-> OrEmpty(rows[i].tvg_id), url |-> OrEmpty(rows[i].url),
             extinf |-> OrEmpty(rows[i].extinf)]]

WrIdle == [pc |-> "idle"]
GotIdle == [pc |-> "idle"]
NoDelete == [pid |-> 0, existed |-> FALSE, cascaded |-> FALSE]
UpIdle == [pc |-> "idle", ended |-> "none"]
UpCommitted == [pc |-> "idle", ended |-> "committed"]
UpRaised == [pc |-> "idle", ended |-> "raised"]
RdIdle == [pc |-> "idle"]
QrNone == [op |-> "none"]
MainIdle == [pc |-> "idle"]
NoReport == [kind |-> "none"]

\* a fresh database file with no call in flight
EmptyStore ==
    /\ playlists = {}
    /\ seq = 0
    /\ channels = <<>>
    /\ wr = WrIdle
    /\ got = GotIdle
    /\ lastDelete = NoDelete

EmptyEpg ==
    /\ epg = <<>>
    /\ up = UpIdle
    /\ rd = RdIdle
    /\ qr = QrNone

NoUpdate ==
    /\ running = {}
    /\ queue = <<>>
    /\ main = MainIdle
    /\ report = NoReport

NoParse ==
    /\ doc = <<>>
    /\ pos = 1
    /\ out = <<>>
    /\ pst = "done"
    /\ calls = <<>>

SelIdle == [pc |-> "idle"]
GenIdle == [pc |-> "idle"]
ProcNone == [pc |-> "none"]
MrgIdle == [pc |-> "idle"]

NoBridge ==
    /\ sel = SelIdle
    /\ gen = GenIdle
    /\ proc = ProcNone
    /\ mrg = MrgIdle

EditIdle == [pc |-> "idle"]
ProbeNone == [pc |-> "none"]
DbIdle == [pc |-> "idle"]

NoRuns ==
    /\ runs = <<>>
    /\ mainq = <<>>
    /\ btn = TRUE

NoUi ==
    /\ edit = EditIdle
    /\ probe = ProbeNone
    /\ sigq = <<>>
    /\ db = DbIdle

InitStore == EmptyStore /\ EmptyEpg /\ NoUpdate /\ NoParse /\ NoBridge /\ NoUi /\ NoRuns

\* add_playlist: INSERT + commit on its own connection
AddPlaylist ==
    /\ wr.pc = "idle" /\ got.pc = "idle"
    /\ seq + 1 \in PlaylistIds
    /\ seq' = seq + 1
    /\ playlists' = playlists \cup {seq + 1}
    /\ UNCHANGED <<channels, wr, got, lastDelete>>
    /\ UNCHANGED nonStoreVars

\* delete_playlist: DELETE FROM playlists WHERE id=? + commit; the channel
\* rows go with it by ON DELETE CASCADE when foreign keys are enforced
DeletePlaylistUnfiltered(pid) ==
    /\ wr.pc = "idle" /\ got.pc = "idle"
    /\ playlists' = {}
    /\ channels' = <<>>
    /\ lastDelete' = [pid |-> pid, existed |-> pid \in playlists,
                      cascaded |-> pid \in playlists
                                   /\ SelectSeq2(channels, pid) # <<>>]
    /\ UNCHANGED <<seq, wr, got>>
    /\ UNCHANGED nonStoreVars

DeletePlaylist(pid) ==
    /\ wr.pc = "idle" /\ got.pc = "idle"
    /\ playlists' = playlists \ {pid}
    /\ channels' = IF ForeignKeysOn /\ pid \in playlists
                   THEN RejectSeq(channels, pid)
                   ELSE channels
    /\ lastDelete' = [pid |-> pid, existed |-> pid \in playlists,
                      cascaded |-> pid \in playlists
                                   /\ SelectSeq2(channels, pid) # <<>>]
    /\ UNCHANGED <<seq, wr, got>>
    /\ UNCHANGED nonStoreVars

\* replace_channels, first statement: DELETE FROM channels WHERE playlist_id=?
\* opens the transaction and takes the write lock; the list of tuples to
\* insert is built next
ReplaceChannelsDelete(pid, cs) ==
    /\ wr.pc = "idle" /\ got.pc = "idle"
    /\ wr' = [pc |-> "inserting", pid |-> pid, cs |-> cs,
              old |-> GetChannelsOf(channels, pid),
              view |-> RejectSeq(channels, pid),
              todo |-> ChannelRows(pid, cs)]
    /\ channels' = IF ImplicitTransaction THEN channels ELSE RejectSeq(channels, pid)
    /\ UNCHANGED <<playlists, seq, got, lastDelete>>
    /\ UNCHANGED nonStoreVars

\* replace_channels, executemany: one INSERT; the foreign key of the row is
\* checked at once and a violation raises IntegrityError
ReplaceChannelsInsert ==
    /\ wr.pc = "inserting" /\ got.pc = "idle"
    /\ wr.todo # <<>>
    /\ IF ForeignKeysOn /\ wr.pid \notin playlists
       THEN /\ wr' = [pc |-> "failed", pid |-> wr.pid, cs |-> wr.cs, old |-> wr.old]
            /\ UNCHANGED channels
       ELSE /\ wr' = [wr EXCEPT !.view = Append(wr.view, Head(wr.todo)),
                                !.todo = Tail(wr.todo)]
            /\ channels' = IF ImplicitTransaction THEN channels
                           ELSE Append(wr.view, Head(wr.todo))
    /\ UNCHANGED <<playlists, seq, got, lastDelete>>
    /\ UNCHANGED nonStoreVars

\* replace_channels: con.commit()
ReplaceChannelsCommit ==
    /\ wr.pc = "inserting" /\ got.pc = "idle"
    /\ wr.todo = <<>>
    /\ channels' = wr.view
    /\ wr' = WrIdle
    /\ UNCHANGED <<playlists, seq, got, lastDelete>>
    /\ UNCHANGED nonStoreVars

\* replace_channels: an engine error after the DELETE (disk, I/O); finally
\* closes the connection without a commit, which rolls the transaction back
ReplaceChannelsError ==
    /\ wr.pc = "inserting" /\ got.pc = "idle"
    /\ wr' = [pc |-> "failed", pid |-> wr.pid, cs |-> wr.cs, old |-> wr.old]
    /\ UNCHANGED <<playlists, seq, channels, got, lastDelete>>
    /\ UNCHANGED nonStoreVars

\* the exception reaches the caller
ReplaceChannelsRaise ==
    /\ wr.pc = "failed" /\ got.pc = "idle"
    /\ wr' = WrIdle
    /\ UNCHANGED <<playlists, seq, channels, got, lastDelete>>
    /\ UNCHANGED nonStoreVars

\* get_channels on another connection, at any point of the writer's
\* transaction: one SELECT over the committed rows. The call touches nothing
\* else, so it is taken to return before the next step of another thread.
GetChannels(pid) ==
    /\ got.pc = "idle"
    /\ got' = [pc |-> "read", pid |-> pid, rows |-> GetChannelsOf(channels, pid)]
    /\ UNCHANGED <<playlists, seq, channels, wr, lastDelete>>
    /\ UNCHANGED nonStoreVars

GetChannelsReturn ==
    /\ got.pc = "read"
    /\ got' = GotIdle
    /\ UNCHANGED <<playlists, seq, channels, wr, lastDelete>>
    /\ UNCHANGED nonStoreVars

NextStore ==
    \/ AddPlaylist
    \/ \E pid \in PlaylistIds : DeletePlaylist(pid)
    \/ \E pid \in PlaylistIds, cs \in SeqsUpTo(ChanDicts, MaxChans) :
           ReplaceChannelsDelete(pid, cs)
    \/ ReplaceChannelsInsert
    \/ ReplaceChannelsCommit
    \/ ReplaceChannelsError
    \/ ReplaceChannelsRaise
    \/ \E pid \in PlaylistIds : GetChannels(pid)
    \/ GetChannelsReturn

SpecStore == InitStore /\ [][NextStore]_vars

\* the field maps get_channels returns once cs has replaced the channels of pid
NewChannels(pid, cs) == GetChannelsOf(ChannelRows(pid, cs), pid)

\* a field of a channel dict as the claim has it read back
ReadBack(v) == IF v = NoneVal THEN "" ELSE v

FieldMaps(cs) ==
    [i \in 1..Len(cs) |->
        [name |-> ReadBack(cs[i].name), group |-> ReadBack(cs[i].group),
         tvg_id |-> ReadBack(cs[i].tvg_id), url |-> ReadBack(cs[i].url),
         extinf |-> ReadBack(cs[i].extinf)]]

\* C20: once replace_channels(pid, cs) has committed, get_channels(pid) is
\* the field maps of cs in the order of cs, with the five fields of each and
\* "" for a missing or None field, whatever pid held before, and get_channels
\* of every other playlist is what it was.
C20_ReplaceRoundTrip ==
    [][(wr.pc = "inserting" /\ wr'.pc = "idle") =>
           /\ GetChannelsOf(channels', wr.pid) = FieldMaps(wr.cs)
           /\ \A q \in PlaylistIds \ {wr.pid} :
                  GetChannelsOf(channels', q) = GetChannelsOf(channels, q)]_vars

\* get_channels returned the two field maps of a committed replacement, in
\* order, while the other playlist holds channels of its own
C20_Witness ==
    /\ got.pc = "read" /\ wr.pc = "idle"
    /\ got.rows = FieldMaps(<<ChanSparse, ChanFull>>)
    /\ \E q \in PlaylistIds \ {got.pid} : GetChannelsOf(channels, q) = FieldMaps(<<ChanFull>>)

\* C1: a get_channels concurrent with replace_channels reads the complete old
\* channel set or the complete new one, and after a replace_channels that
\* failed after its DELETE the old set is what get_channels returns.
C1_ReplaceAtomic ==
    /\ (got.pc = "read" /\ wr.pc = "inserting" /\ wr.pid = got.pid)
           => (got.rows = wr.old \/ got.rows = NewChannels(wr.pid, wr.cs))
    /\ (got.pc = "read" /\ wr.pc = "failed" /\ wr.pid = got.pid)
           => got.rows = wr.old

\* a read taken while a replacement of a non-empty set by a different
\* non-empty set had inserted one of its two rows
C1_Witness ==
    /\ got.pc = "read" /\ wr.pc = "inserting" /\ wr.pid = got.pid
    /\ wr.old # <<>> /\ Len(wr.cs) = 2 /\ Len(wr.todo) = 1
    /\ wr.old # NewChannels(wr.pid, wr.cs)

\* a read taken after a replacement of a non-empty set failed
C1_WitnessFailed ==
    /\ got.pc = "read" /\ wr.pc = "failed" /\ wr.pid = got.pid
    /\ wr.old # <<>> /\ wr.cs # <<>>

\* C3: every stored channel row references an existing playlist; after
\* delete_playlist(id), get_channels(id) is empty; a replace_channels on an
\* id that does not exist leaves no row.
C3_ChannelsReferencePlaylists ==
    /\ \A i \in 1..Len(channels) : channels[i].playlist_id \in playlists
    /\ (lastDelete.existed /\ got.pc = "read" /\ got.pid = lastDelete.pid)
           => got.rows = <<>>
    /\ (got.pc = "read" /\ got.pid \notin playlists) => got.rows = <<>>

\* get_channels on a deleted playlist whose cascade removed rows
C3_Witness ==
    /\ lastDelete.cascaded
    /\ got.pc = "read" /\ got.pid = lastDelete.pid

\* =========================================================================
\* storage.py: epg_programs
\* =========================================================================

\* a program dict {tvg_id, start_ts, stop_ts, title}; desc is carried exactly
\* like title and is left out
Prog(t, a, b, ti) == [tvg_id |-> t, start_ts |-> a, stop_ts |-> b, title |-> ti]

\* the tuple upsert_epg_programs appends to buf for one dict
ProgramRow(p) ==
    [tvg_id |-> p.tvg_id, start_ts |-> p.start_ts, stop_ts |-> p.stop_ts,
     title |-> p.title]

\* chunk: int = 5000
DefaultChunk == 5000

\* one turn of "for p in programs": append to buf, flush a full buf
UpsertIter(st, p, chunk) ==
    LET buf == Append(st.buf, ProgramRow(p))
    IN  IF Len(buf) >= chunk
        THEN [view |-> st.view \o buf, buf |-> <<>>]
        ELSE [view |-> st.view, buf |-> buf]

\* "if buf: executemany(buf)" after the loop
UpsertTailDrops(st) == st.view
UpsertTail(st) == IF st.buf # <<>> THEN st.view \o st.buf ELSE st.view

RECURSIVE UpsertLoop(_, _, _)
UpsertLoop(st, programs, chunk) ==
    IF programs = <<>> THEN st
    ELSE UpsertLoop(UpsertIter(st, Head(programs), chunk), Tail(programs), chunk)

\* the table a whole, successful upsert_epg_programs call commits
UpsertEpgPrograms(table, programs, chunk) ==
    UpsertTail(UpsertLoop([view |-> table, buf |-> <<>>], programs, chunk))

\* DELETE FROM epg_programs
ClearEpgKeeps(table) == table
ClearEpgRows(table) == <<>>

\* ---- queries -------------------------------------------------------------

\* Optional[dict]: None is the empty tuple, a dict d the tuple <<d>>
NoRow == <<>>
Some(d) == <<d>>

\* row_to_dict of get_now_next; i = 0 stands for "fetchone() gave no row"
RowToDict(table, i) ==
    IF i = 0 THEN NoRow
    ELSE Some([start_ts |-> table[i].start_ts, stop_ts |-> table[i].stop_ts,
               title |-> table[i].title])

\* WHERE tvg_id=? AND start_ts <= ? AND stop_ts > ?
\* "tvg_id=?" on a TEXT column of the default (BINARY) collation
TvgIdEqualsNoCase(stored, tvg_id) ==
    (IF stored = "AB" THEN "ab" ELSE stored) = (IF tvg_id = "AB" THEN "ab" ELSE tvg_id)
TvgIdEquals(stored, tvg_id) == stored = tvg_id

NowWhereInclusiveStop(table, tvg_id, now_ts) ==
    {i \in DOMAIN table : /\ table[i].tvg_id = tvg_id
                          /\ table[i].start_ts <= now_ts
                          /\ table[i].stop_ts >= now_ts}
NowWhere(table, tvg_id, now_ts) ==
    {i \in DOMAIN table : /\ TvgIdEquals(table[i].tvg_id, tvg_id)
                          /\ table[i].start_ts <= now_ts
                          /\ table[i].stop_ts > now_ts}

\* WHERE tvg_id=? AND start_ts > ?
NextWhere(table, tvg_id, now_ts) ==
    {i \in DOMAIN table : /\ TvgIdEquals(table[i].tvg_id, tvg_id)
                          /\ table[i].start_ts > now_ts}

\* ORDER BY start_ts DESC LIMIT 1 / ORDER BY start_ts ASC LIMIT 1 + fetchone():
\* the ids the statement may return; rows of equal start_ts come in any order
FirstDesc(table, ids) ==
    IF ids = {} THEN {0}
    ELSE {i \in ids : \A j \in ids : table[j].start_ts <= table[i].start_ts}
FirstAsc(table, ids) ==
    IF ids = {} THEN {0}
    ELSE {i \in ids : \A j \in ids : table[j].start_ts >= table[i].start_ts}

\* WHERE tvg_id=? AND stop_ts > ? AND start_ts < ?
ListWhereTouching(table, tvg_id, start_ts, stop_ts) ==
    {i \in DOMAIN table : /\ table[i].tvg_id = tvg_id
                          /\ table[i].stop_ts >= start_ts
                          /\ table[i].start_ts <= stop_ts}
ListWhere(table, tvg_id, start_ts, stop_ts) ==
    {i \in DOMAIN table : /\ TvgIdEquals(table[i].tvg_id, tvg_id)
                          /\ table[i].stop_ts > start_ts
                          /\ table[i].start_ts < stop_ts}

\* ORDER BY start_ts ASC: the orders the statement may return ids in
OrderByStartAsc(table, ids) ==
    {f \in [1..Cardinality(ids) -> ids] :
        /\ \A a, b \in DOMAIN f : a # b => f[a] # f[b]
        /\ \A a, b \in DOMAIN f : a < b => table[f[a]].start_ts <= table[f[b]].start_ts}

\* LIMIT ?: SQLite reads a negative limit as no limit
Limit(ids, limit) ==
    IF limit < 0 \/ limit >= Len(ids) THEN ids ELSE SubSeq(ids, 1, limit)

\* the id sequences list_epg_programs may fetch
ListEpgProgramIds(table, tvg_id, start_ts, stop_ts, limit) ==
    IF tvg_id = "" THEN {<<>>}
    ELSE {Limit(f, limit) :
            f \in OrderByStartAsc(table, ListWhere(table, tvg_id, start_ts, stop_ts))}

\* r[2] or ""
ListRowToDict(table, i) ==
    [start_ts |-> table[i].start_ts, stop_ts |-> table[i].stop_ts,
     title |-> OrEmpty(table[i].title)]

\* the field maps list_epg_programs may return
ListEpgPrograms(table, tvg_id, start_ts, stop_ts, limit) ==
    {[k \in 1..Len(ids) |-> ListRowToDict(table, ids[k])] :
        ids \in ListEpgProgramIds(table, tvg_id, start_ts, stop_ts, limit)}

\* limit: int = 2000
DefaultLimit == 2000

\* ---- upsert_epg_programs, step by step ------------------------------------

UpProgs == {Prog("X", 100, 200, "A"), Prog("X", 200, 300, "B")}

ProgramRows(programs) == [i \in 1..Len(programs) |-> ProgramRow(programs[i])]

\* whether a con.commit() follows the executemany inside the loop: it does
\* not, the only commit comes after the loop
CommitInLoopAdded == TRUE
CommitInLoop == FALSE

InitUpsert == EmptyStore /\ EmptyEpg /\ NoUpdate /\ NoParse /\ NoBridge /\ NoUi /\ NoRuns

\* upsert_epg_programs(programs, chunk): connect, buf = []
\*   st.view  rows this connection has inserted and not committed
\*   locked   the connection holds the write lock (from its first INSERT)
\*   base     ghost: the committed table when the lock was taken
\*   flushed  ghost: rows handed to executemany inside the loop
UpsertBegin(programs, chunk) ==
    /\ up.pc = "idle" /\ rd.pc = "idle"
    /\ Len(epg) + Len(programs) <= MaxRows
    /\ up' = [pc |-> "loop", src |-> programs, chunk |-> chunk,
              st |-> [view |-> <<>>, buf |-> <<>>],
              locked |-> FALSE, base |-> <<>>, flushed |-> 0, all |-> programs]
    /\ UNCHANGED <<epg, rd, qr>>
    /\ UNCHANGED nonEpgVars

\* one turn of the loop
UpsertNext ==
    /\ up.pc = "loop" /\ rd.pc = "idle"
    /\ up.src # <<>>
    /\ LET st2 == UpsertIter(up.st, Head(up.src), up.chunk)
           flush == Len(st2.view) > Len(up.st.view)
       IN  IF flush /\ CommitInLoop
           THEN /\ epg' = epg \o st2.view
                /\ up' = [up EXCEPT !.src = Tail(up.src),
                                    !.st = [view |-> <<>>, buf |-> <<>>],
                                    !.locked = FALSE,
                                    !.base = IF up.locked THEN up.base ELSE epg,
                                    !.flushed = up.flushed + Len(st2.view)]
           ELSE /\ epg' = epg
                /\ up' = [up EXCEPT !.src = Tail(up.src),
                                    !.st = st2,
                                    !.locked = up.locked \/ flush,
                                    !.base = IF flush /\ ~up.locked THEN epg ELSE up.base,
                                    !.flushed = Len(st2.view)]
    /\ UNCHANGED <<rd, qr>>
    /\ UNCHANGED nonEpgVars

\* after the loop: flush what is left in buf, commit, close
UpsertFinish ==
    /\ up.pc = "loop" /\ rd.pc = "idle"
    /\ up.src = <<>>
    /\ epg' = epg \o UpsertTail(up.st)
    /\ up' = UpCommitted
    /\ UNCHANGED <<rd, qr>>
    /\ UNCHANGED nonEpgVars

\* an exception inside the call (a bad record, an engine error): finally
\* closes the connection without a commit
UpsertErrorCommits ==
    /\ up.pc = "loop" /\ rd.pc = "idle"
    /\ up' = UpRaised
    /\ epg' = epg \o up.st.view
    /\ UNCHANGED <<rd, qr>>
    /\ UNCHANGED nonEpgVars
UpsertError ==
    /\ up.pc = "loop" /\ rd.pc = "idle"
    /\ up' = UpRaised
    /\ UNCHANGED <<epg, rd, qr>>
    /\ UNCHANGED nonEpgVars

\* clear_epg on another connection: DELETE + commit; it needs the write lock
ClearEpg ==
    /\ rd.pc = "idle"
    /\ IF up.pc = "idle" THEN TRUE ELSE ~up.locked
    /\ epg' = ClearEpgRows(epg)
    /\ UNCHANGED <<up, rd, qr>>
    /\ UNCHANGED nonEpgVars

\* list_epg_programs on another connection over a window that holds every
\* program of UpProgs: one SELECT over the committed rows, taken to return
\* before the next step of another thread
ReadEpg ==
    /\ rd.pc = "idle"
    /\ \E rows \in ListEpgPrograms(epg, "X", 0, 400, DefaultLimit) :
           rd' = [pc |-> "read", rows |-> rows]
    /\ UNCHANGED <<epg, up, qr>>
    /\ UNCHANGED nonEpgVars

ReadEpgReturn ==
    /\ rd.pc = "read"
    /\ rd' = RdIdle
    /\ UNCHANGED <<epg, up, qr>>
    /\ UNCHANGED nonEpgVars

NextUpsert ==
    \/ \E programs \in SeqsUpTo(UpProgs, MaxProgs), chunk \in 1..MaxChunk :
           UpsertBegin(programs, chunk)
    \/ UpsertNext
    \/ UpsertFinish
    \/ UpsertError
    \/ ClearEpg
    \/ ReadEpg
    \/ ReadEpgReturn

SpecUpsert == InitUpsert /\ [][NextUpsert]_vars

\* C2 (as amended): upsert_epg_programs loads in one transaction committed
\* once after the last batch: from the first flushed batch on, the
\* connection holds the write lock, the committed table is the one the lock
\* found, and a concurrent reader reads the rows of that table only.
C2_SingleTransaction ==
    (up.pc = "loop" /\ up.flushed > 0) =>
        /\ up.locked
        /\ epg = up.base
        /\ rd.pc = "read" => rd.rows \in ListEpgPrograms(up.base, "X", 0, 400, DefaultLimit)

\* a read taken after a batch was flushed and before the rest is consumed
C2_Witness ==
    /\ up.pc = "loop" /\ up.flushed > 0 /\ up.src # <<>>
    /\ rd.pc = "read"
    /\ up.base # <<>>

\* C2 (as claimed): one transaction per batch: a concurrent reader observes
\* the rows of the batches flushed so far, and the write lock is released
\* between batches.
C2_BatchesVisible ==
    (up.pc = "loop" /\ up.flushed > 0) =>
        /\ up.st.buf = <<>> => ~up.locked
        /\ rd.pc = "read" =>
              rd.rows \in ListEpgPrograms(up.base \o SubSeq(ProgramRows(up.all), 1, up.flushed),
                                          "X", 0, 400, DefaultLimit)

\* C6: the rows a completed upsert_epg_programs call adds are the rows of
\* its whole input, once each and in input order, whatever the chunk size:
\* two chunk sizes leave the same table.
C6_ChunkEquivalence ==
    [][(up.pc = "loop" /\ up' = UpCommitted)
          => epg' = epg \o ProgramRows(up.all)]_vars

\* a call about to finish with a partial last batch after a full one
C6_Witness ==
    /\ up.pc = "loop" /\ up.src = <<>>
    /\ up.flushed > 0 /\ up.st.buf # <<>>

\* ... one whose length is a multiple of the chunk size
C6_WitnessMultiple ==
    /\ up.pc = "loop" /\ up.src = <<>>
    /\ up.flushed = 2 /\ up.chunk = 2 /\ up.st.buf = <<>>

\* ... one shorter than a chunk
C6_WitnessShort ==
    /\ up.pc = "loop" /\ up.src = <<>>
    /\ up.flushed = 0 /\ up.chunk = 2 /\ Len(up.st.buf) = 1

\* =========================================================================
\* storage.py: get_now_next and list_epg_programs over stored tables
\* =========================================================================

ProgA == Prog("X", 100, 200, "A")
ProgB == Prog("X", 200, 300, "B")

\* A and B of the now/next example, C overlapping both, D on another
\* channel, E starting with A
QueryProgs == {ProgA, ProgB, Prog("X", 150, 250, "C"), Prog("Y", 100, 300, "D"),
               Prog("X", 100, 150, "")}

QueryTimes == {100, 150, 200, 250, 300}
QueryTvgIds == {"X", "Y", ""}
QueryLimits == 0..MaxLimit \cup {DefaultLimit}

\* the table is what upsert_epg_programs stored of some program sequence
InitQuery ==
    /\ EmptyStore /\ NoUpdate /\ NoParse /\ NoBridge /\ NoUi /\ NoRuns
    /\ epg \in {ProgramRows(ps) : ps \in SeqsUpTo(QueryProgs, MaxStored)}
    /\ up = UpIdle
    /\ rd = RdIdle
    /\ qr = QrNone

\* get_now_next(tvg_id, now_ts)
GetNowNext(tvg_id, now_ts) ==
    /\ qr.op = "none"
    /\ \E i \in FirstDesc(epg, NowWhere(epg, tvg_id, now_ts)),
          j \in FirstAsc(epg, NextWhere(epg, tvg_id, now_ts)) :
           qr' = [op |-> "get_now_next", tvg_id |-> tvg_id, now_ts |-> now_ts,
                  now |-> RowToDict(epg, i), next |-> RowToDict(epg, j)]
    /\ UNCHANGED <<epg, up, rd>>
    /\ UNCHANGED nonEpgVars

\* list_epg_programs(tvg_id, start_ts, stop_ts, limit); ids is a ghost, the
\* ids of the rows fetched
ListEpgProgramsCall(tvg_id, start_ts, stop_ts, limit) ==
    /\ qr.op = "none"
    /\ \E ids \in ListEpgProgramIds(epg, tvg_id, start_ts, stop_ts, limit) :
           qr' = [op |-> "list_epg_programs", tvg_id |-> tvg_id,
                  start_ts |-> start_ts, stop_ts |-> stop_ts, limit |-> limit,
                  ids |-> ids,
                  rows |-> [k \in 1..Len(ids) |-> ListRowToDict(epg, ids[k])]]
    /\ UNCHANGED <<epg, up, rd>>
    /\ UNCHANGED nonEpgVars

\* the caller has taken the result
QueryReturn ==
    /\ qr.op # "none"
    /\ qr' = QrNone
    /\ UNCHANGED <<epg, up, rd>>
    /\ UNCHANGED nonEpgVars

NextQuery ==
    \/ \E tvg_id \in QueryTvgIds, now_ts \in QueryTimes : GetNowNext(tvg_id, now_ts)
    \/ \E tvg_id \in QueryTvgIds, start_ts \in QueryTimes, stop_ts \in QueryTimes,
          limit \in QueryLimits :
           ListEpgProgramsCall(tvg_id, start_ts, stop_ts, limit)
    \/ QueryReturn

SpecQuery == InitQuery /\ [][NextQuery]_vars

DictOf(r) == [start_ts |-> r.start_ts, stop_ts |-> r.stop_ts, title |-> r.title]

\* C4: get_now_next returns as current a row of the tvg_id with
\* start_ts <= now_ts < stop_ts of greatest start_ts, as upcoming a row of the
\* tvg_id with the smallest start_ts > now_ts, and None where there is none;
\* over A=[100,200), B=[200,300) it gives (A,B) at 150, (B,None) at 200, 250.
C4_NowNext ==
    qr.op = "get_now_next" =>
        LET cur == {i \in DOMAIN epg : /\ epg[i].tvg_id = qr.tvg_id
                                       /\ epg[i].start_ts <= qr.now_ts
                                       /\ qr.now_ts < epg[i].stop_ts}
            upc == {i \in DOMAIN epg : /\ epg[i].tvg_id = qr.tvg_id
                                       /\ epg[i].start_ts > qr.now_ts}
        IN  /\ cur = {} => qr.now = NoRow
            /\ cur # {} => \E i \in cur :
                   /\ qr.now = Some(DictOf(epg[i]))
                   /\ \A j \in cur : epg[j].start_ts <= epg[i].start_ts
            /\ upc = {} => qr.next = NoRow
            /\ upc # {} => \E i \in upc :
                   /\ qr.next = Some(DictOf(epg[i]))
                   /\ \A j \in upc : epg[j].start_ts >= epg[i].start_ts
            /\ (epg = <<ProgA, ProgB>> /\ qr.tvg_id = "X" /\ qr.now_ts = 150)
                   => (qr.now = Some(DictOf(ProgA)) /\ qr.next = Some(DictOf(ProgB)))
            /\ (epg = <<ProgA, ProgB>> /\ qr.tvg_id = "X" /\ qr.now_ts \in {200, 250})
                   => (qr.now = Some(DictOf(ProgB)) /\ qr.next = NoRow)

\* the call at 200 over A and B
C4_Witness ==
    /\ epg = <<ProgA, ProgB>>
    /\ qr.op = "get_now_next" /\ qr.tvg_id = "X" /\ qr.now_ts = 200
    /\ qr.now = Some(DictOf(ProgB))

\* C5: list_epg_programs returns the stored programs of the tvg_id with
\* stop_ts > window_start and start_ts < window_stop, by ascending start_ts,
\* the limit earliest-starting ones when more overlap; a program touching
\* the window at an endpoint only is left out.
C5_ListWindow ==
    qr.op = "list_epg_programs" =>
        LET over == {i \in DOMAIN epg : /\ epg[i].tvg_id = qr.tvg_id
                                        /\ epg[i].stop_ts > qr.start_ts
                                        /\ epg[i].start_ts < qr.stop_ts}
            n == IF Cardinality(over) <= qr.limit THEN Cardinality(over) ELSE qr.limit
            taken == {qr.ids[k] : k \in DOMAIN qr.ids}
        IN  /\ Len(qr.rows) = n /\ Len(qr.ids) = n
            /\ taken \subseteq over /\ Cardinality(taken) = n
            /\ \A k \in DOMAIN qr.rows : qr.rows[k] = DictOf(epg[qr.ids[k]])
            /\ \A a, b \in DOMAIN qr.rows :
                   a < b => qr.rows[a].start_ts <= qr.rows[b].start_ts
            /\ \A i \in taken, j \in over \ taken : epg[i].start_ts <= epg[j].start_ts
            /\ \A k \in DOMAIN qr.rows :
                   qr.rows[k].stop_ts # qr.start_ts /\ qr.rows[k].start_ts # qr.stop_ts

\* a call that the limit cuts, over a table with a program ending where
\* the window starts
C5_Witness ==
    /\ qr.op = "list_epg_programs" /\ qr.limit = 1 /\ Len(qr.rows) = 1
    /\ \E i, j \in DOMAIN epg :
           /\ i # j /\ epg[i].tvg_id = qr.tvg_id /\ epg[j].tvg_id = qr.tvg_id
           /\ epg[i].stop_ts > qr.start_ts /\ epg[i].start_ts < qr.stop_ts
           /\ epg[j].stop_ts > qr.start_ts /\ epg[j].start_ts < qr.stop_ts
    /\ \E i \in DOMAIN epg : epg[i].tvg_id = qr.tvg_id /\ epg[i].stop_ts = qr.start_ts

\* =========================================================================
\* ui/main_window.py: 'update EPG'
\* =========================================================================

InitEpgUpdate == EmptyStore /\ EmptyEpg /\ NoUpdate /\ NoParse /\ NoBridge /\ NoUi /\ NoRuns

\* on_epg_update with a non-empty target: a background thread is started.
\* It is also called by _maybe_auto_epg_for_salon, whatever the state of the
\* button, so runs overlap. programs is what the run will decode.
OnEpgUpdate(id, programs) ==
    /\ \A r \in running : r.id # id
    /\ \A k \in 1..(id - 1) : \E r \in running : r.id = k
    /\ Cardinality(running) + Len(queue) < MaxRuns
    /\ running' = running \cup {[id |-> id, programs |-> programs]}
    /\ UNCHANGED <<queue, main, report>>
    /\ UNCHANGED <<runVars, uiVars, bridgeVars, storeVars, epgVars, parseVars>>

\* run(): programs = list(iter_programs(xml)), then the call of
\* _load_epg_snapshot is posted to the main thread (QTimer.singleShot(0, self, ...))
RunDecoded(r) ==
    /\ r \in running
    /\ running' = running \ {r}
    /\ queue' = Append(queue, r.programs)
    /\ UNCHANGED <<main, report>>
    /\ UNCHANGED <<runVars, uiVars, bridgeVars, storeVars, epgVars, parseVars>>

\* run(): generation, download or decoding raised; epg_fail is emitted and
\* nothing is loaded
RunFailed(r) ==
    /\ r \in running
    /\ running' = running \ {r}
    /\ UNCHANGED <<queue, main, report>>
    /\ UNCHANGED <<runVars, uiVars, bridgeVars, storeVars, epgVars, parseVars>>

\* _load_epg_snapshot on the main thread, first call: self.db.clear_epg()
\*   over  ghost: the call found a non-empty table of other programs
LoadEpgSnapshotClear(programs) ==
    /\ main.pc = "idle"
    /\ epg' = ClearEpgRows(epg)
    /\ main' = [pc |-> "cleared", programs |-> programs,
                over |-> (epg # <<>> /\ epg # ProgramRows(programs))]
    /\ UNCHANGED <<up, rd, qr>>
    /\ UNCHANGED <<runVars, uiVars, bridgeVars, storeVars, parseVars>>

\* ... for the call a background run posted
LoadPosted ==
    /\ queue # <<>>
    /\ LoadEpgSnapshotClear(Head(queue))
    /\ queue' = Tail(queue)
    /\ UNCHANGED <<running, report>>

\* ... for the call of _try_load_epg_cache, with the programs of the cached file
TryLoadEpgCache(programs) ==
    /\ LoadEpgSnapshotClear(programs)
    /\ UNCHANGED <<running, queue, report>>

\* _load_epg_snapshot, second call: self.db.upsert_epg_programs(programs), then
\* epg_ok.emit()
LoadEpgSnapshotUpsert ==
    /\ main.pc = "cleared"
    /\ epg' = UpsertEpgPrograms(epg, main.programs, DefaultChunk)
    /\ report' = [kind |-> "ok", programs |-> main.programs, over |-> main.over]
    /\ main' = MainIdle
    /\ UNCHANGED <<up, rd, qr>>
    /\ UNCHANGED <<running, queue>>
    /\ UNCHANGED <<runVars, uiVars, bridgeVars, storeVars, parseVars>>

\* _load_epg_snapshot: upsert_epg_programs raised (its transaction is rolled
\* back); epg_fail.emit(str(e))
LoadEpgSnapshotFail ==
    /\ main.pc = "cleared"
    /\ report' = [kind |-> "fail"]
    /\ main' = MainIdle
    /\ UNCHANGED <<running, queue>>
    /\ UNCHANGED <<runVars, uiVars, bridgeVars, storeVars, epgVars, parseVars>>

NextEpgUpdate ==
    \/ \E id \in 1..MaxRuns, programs \in SeqsUpTo(UpProgs, MaxDecoded) :
           OnEpgUpdate(id, programs)
    \/ \E r \in running : RunDecoded(r)
    \/ \E r \in running : RunFailed(r)
    \/ LoadPosted
    \/ \E programs \in SeqsUpTo(UpProgs, MaxDecoded) : TryLoadEpgCache(programs)
    \/ LoadEpgSnapshotUpsert
    \/ LoadEpgSnapshotFail

SpecEpgUpdate == InitEpgUpdate /\ [][NextEpgUpdate]_vars

\* C7: once the last 'update EPG' (network update or cache load) has
\* reported success, the program table holds exactly the programs decoded
\* for that update, and no row of an earlier one.
C7_ReplacedWholesale ==
    (report.kind = "ok" /\ main.pc = "idle") => epg = ProgramRows(report.programs)

\* a successful update over the non-empty table of an earlier, different
\* one, with another run still going
C7_Witness ==
    /\ report.kind = "ok" /\ main.pc = "idle"
    /\ report.programs # <<>> /\ report.over
    /\ running # {}

\* =========================================================================
\* epg_xmltv.py: _parse_xmltv_dt and iter_programs
\* =========================================================================
\* A text is the tuple of its characters.

Digits == {"0", "1", "2", "3", "4", "5", "6", "7", "8", "9"}

DigitValue(c) ==
    CASE c = "0" -> 0 [] c = "1" -> 1 [] c = "2" -> 2 [] c = "3" -> 3
      [] c = "4" -> 4 [] c = "5" -> 5 [] c = "6" -> 6 [] c = "7" -> 7
      [] c = "8" -> 8 [] c = "9" -> 9

RECURSIVE LStrip(_)
LStrip(s) == IF s # <<>> /\ Head(s) = " " THEN LStrip(Tail(s)) ELSE s

RECURSIVE RStrip(_)
RStrip(s) ==
    IF s # <<>> /\ s[Len(s)] = " " THEN RStrip(SubSeq(s, 1, Len(s) - 1)) ELSE s

\* str.strip()
Strip(s) == RStrip(LStrip(s))

RECURSIVE SplitFrom(_, _, _)
\* str.split(): the maximal runs of non-blank characters
SplitFrom(s, cur, acc) ==
    IF s = <<>> THEN (IF cur = <<>> THEN acc ELSE Append(acc, cur))
    ELSE IF Head(s) = " "
         THEN SplitFrom(Tail(s), <<>>, IF cur = <<>> THEN acc ELSE Append(acc, cur))
         ELSE SplitFrom(Tail(s), Append(cur, Head(s)), acc)
Split(s) == SplitFrom(s, <<>>, <<>>)

\* _DT_RE = ^(\d{14})
DtReMatches(s) == Len(s) >= 14 /\ \A k \in 1..14 : s[k] \in Digits

\* the number the digits s[a..b] write
RECURSIVE Number(_, _, _)
Number(s, a, b) ==
    IF a > b THEN 0 ELSE Number(s, a, b - 1) * 10 + DigitValue(s[b])

IsLeap(y) == (y % 4 = 0 /\ y % 100 # 0) \/ y % 400 = 0

DaysInMonth(y, m) ==
    IF m = 2 THEN (IF IsLeap(y) THEN 29 ELSE 28)
    ELSE IF m \in {4, 6, 9, 11} THEN 30 ELSE 31

\* datetime.strptime(..., "%Y%m%d%H%M%S") succeeds on 14 digits exactly when
\* they write a date and time of the calendar; it raises ValueError otherwise
StrptimeAccepts(y, m, d, hh, mi, ss) ==
    /\ y >= 1
    /\ m \in 1..12
    /\ d \in 1..DaysInMonth(y, m)
    /\ hh \in 0..23 /\ mi \in 0..59 /\ ss \in 0..59

\* days from 1970-01-01 to y-m-d of the proleptic Gregorian calendar
DaysFromEpoch(y, m, d) ==
    LET y2 == IF m <= 2 THEN y - 1 ELSE y
        era == y2 \div 400
        yoe == y2 - era * 400
        mp == IF m > 2 THEN m - 3 ELSE m + 9
        doy == (153 * mp + 2) \div 5 + d - 1
        doe == yoe * 365 + yoe \div 4 - yoe \div 100 + doy
    IN  era * 146097 + doe - 719468

\* int(dt.replace(tzinfo=timezone.utc).timestamp()) of the naive datetime
NaiveSeconds(y, m, d, hh, mi, ss) ==
    DaysFromEpoch(y, m, d) * 86400 + hh * 3600 + mi * 60 + ss

\* int() of a two-character text: two digits, or a sign and a digit
IntAccepts(a, b) == b \in Digits /\ a \in Digits \cup {"+", "-"}
IntValue(a, b) ==
    IF a \in Digits THEN 10 * DigitValue(a) + DigitValue(b)
    ELSE IF a = "-" THEN 0 - DigitValue(b) ELSE DigitValue(b)

Returned(v) == [raised |-> FALSE, value |-> v]
Raised == [raised |-> TRUE, value |-> 0]

\* the " +HHMM" / " -HHMM" branch, for offset token off
ParseWithOffset(naive, off) ==
    IF ~(IntAccepts(off[2], off[3]) /\ IntAccepts(off[4], off[5])) THEN Raised
    ELSE LET sign == IF off[1] = "+" THEN 1 ELSE 0 - 1
             secs == sign * (IntValue(off[2], off[3]) * 3600 + IntValue(off[4], off[5]) * 60)
         IN  \* timezone() takes offsets strictly between -24 h and 24 h
             IF secs <= 0 - 86400 \/ secs >= 86400 THEN Raised
             ELSE Returned(naive - secs)

\* _parse_xmltv_dt(s): the value returned, or the exception raised
ParseXmltvDt(s0) ==
    IF s0 = <<>> THEN Returned(0)
    ELSE LET s == Strip(s0)
         IN  IF ~DtReMatches(s) THEN Returned(0)
             ELSE LET y == Number(s, 1, 4)
                      m == Number(s, 5, 6)
                      d == Number(s, 7, 8)
                      hh == Number(s, 9, 10)
                      mi == Number(s, 11, 12)
                      ss == Number(s, 13, 14)
                      parts == Split(s)
                  IN  IF ~StrptimeAccepts(y, m, d, hh, mi, ss) THEN Raised
                      ELSE IF /\ Len(parts) >= 2
                              /\ parts[2][1] \in {"+", "-"}
                              /\ Len(parts[2]) = 5
                           THEN ParseWithOffset(NaiveSeconds(y, m, d, hh, mi, ss), parts[2])
                           ELSE Returned(NaiveSeconds(y, m, d, hh, mi, ss))

\* ---- attribute texts ------------------------------------------------------
TxtEmpty == <<>>
TxtNotADate == <<"n", "o", "t", "-", "a", "-", "d", "a", "t", "e">>
TxtSixUtc == <<"2", "0", "2", "4", "0", "1", "0", "1", "0", "6", "0", "0", "0", "0", " ", "+", "0", "0", "0", "0">>
TxtOneMinusFive == <<"2", "0", "2", "4", "0", "1", "0", "1", "0", "1", "0", "0", "0", "0", " ", "-", "0", "5", "0", "0">>
TxtSixBare == <<"2", "0", "2", "4", "0", "1", "0", "1", "0", "6", "0", "0", "0", "0">>
TxtSixPadded == <<" ", "2", "0", "2", "4", "0", "1", "0", "1", "0", "6", "0", "0", "0", "0", " ", "+", "0", "0", "0", "0", " ">>
TxtMonth13 == <<"2", "0", "2", "4", "1", "3", "0", "1", "0", "0", "0", "0", "0", "0">>
TxtOffsetLetters == <<"2", "0", "2", "4", "0", "1", "0", "1", "0", "6", "0", "0", "0", "0", " ", "+", "a", "b", "0", "0">>
TxtEpoch == <<"1", "9", "7", "0", "0", "1", "0", "1", "0", "0", "0", "0", "0", "0">>
TxtSevenUtc == <<"2", "0", "2", "4", "0", "1", "0", "1", "0", "7", "0", "0", "0", "0", " ", "+", "0", "0", "0", "0">>
TxtFiveBare == <<"2", "0", "2", "4", "0", "1", "0", "1", "0", "5", "0", "0", "0", "0">>
TxtFeb30 == <<"2", "0", "2", "4", "0", "2", "3", "0", "0", "0", "0", "0", "0", "0", " ", "+", "0", "0", "0", "0">>
TxtOffset24h == <<"2", "0", "2", "4", "0", "1", "0", "1", "0", "7", "0", "0", "0", "0", " ", "+", "2", "4", "0", "0">>
TxtSevenLongOffset == <<"2", "0", "2", "4", "0", "1", "0", "1", "0", "7", "0", "0", "0", "0", " ", "+", "0", "1", ":", "0", "0">>


ChanX == <<"X">>
ChanXPadded == <<" ", "X", " ">>
ChanBlank == <<" ">>

\* an element as iterparse hands it over; a missing attribute or child is
\* the empty text
El(tag, channel, start, stop, title) ==
    [tag |-> tag, channel |-> channel, start |-> start, stop |-> stop, title |-> title]

StartTexts == {TxtEmpty, TxtNotADate, TxtSixUtc, TxtOneMinusFive, TxtSixBare,
               TxtSixPadded, TxtMonth13, TxtOffsetLetters, TxtEpoch}
StopTexts == {TxtEmpty, TxtSevenUtc, TxtSixUtc, TxtFiveBare, TxtFeb30,
              TxtOffset24h, TxtSevenLongOffset}
ChannelTexts == {TxtEmpty, ChanX, ChanXPadded, ChanBlank}

\* a well-formed programme with one of its parts varied, and a channel element
Elements ==
    {El("programme", c, TxtSixUtc, TxtSevenUtc, <<"T">>) : c \in ChannelTexts}
    \cup {El("programme", ChanX, a, TxtSevenUtc, <<"T">>) : a \in StartTexts}
    \cup {El("programme", ChanX, TxtSixUtc, b, <<"T">>) : b \in StopTexts}
    \cup {El("programme", ChanX, TxtSixUtc, TxtSevenUtc, <<>>),
          El("channel", TxtEmpty, TxtEmpty, TxtEmpty, <<>>)}

\* if tvg_id and start_ts and stop_ts
RetainWithoutStop(tvg_id, start_ts, stop_ts) == tvg_id # <<>> /\ start_ts # 0
Retain(tvg_id, start_ts, stop_ts) == tvg_id # <<>> /\ start_ts # 0 /\ stop_ts # 0

InitParse ==
    /\ EmptyStore /\ EmptyEpg /\ NoUpdate /\ NoBridge /\ NoUi /\ NoRuns
    /\ doc \in SeqsUpTo(Elements, MaxElems)
    /\ pos = 1
    /\ out = <<>>
    /\ pst = "iter"
    /\ calls = <<>>

\* one turn of "for _, elem in context"
IterNext ==
    /\ pst = "iter"
    /\ pos <= Len(doc)
    /\ LET elem == doc[pos]
           tvg_id == Strip(elem.channel)
           start_ts == ParseXmltvDt(elem.start)
           stop_ts == ParseXmltvDt(elem.stop)
       IN  IF elem.tag # "programme"
           THEN /\ pos' = pos + 1
                /\ calls' = <<>>
                /\ UNCHANGED <<out, pst>>
           ELSE IF start_ts.raised
           THEN /\ pst' = "raised"
                /\ calls' = <<[text |-> elem.start, res |-> start_ts]>>
                /\ UNCHANGED <<out, pos>>
           ELSE IF stop_ts.raised
           THEN /\ pst' = "raised"
                /\ calls' = <<[text |-> elem.start, res |-> start_ts],
                              [text |-> elem.stop, res |-> stop_ts]>>
                /\ UNCHANGED <<out, pos>>
           ELSE /\ out' = IF Retain(tvg_id, start_ts.value, stop_ts.value)
                          THEN Append(out, Prog(tvg_id, start_ts.value, stop_ts.value,
                                                Strip(elem.title)))
                          ELSE out
                /\ pos' = pos + 1
                /\ calls' = <<[text |-> elem.start, res |-> start_ts],
                              [text |-> elem.stop, res |-> stop_ts]>>
                /\ UNCHANGED pst
    /\ UNCHANGED doc
    /\ UNCHANGED <<runVars, uiVars, bridgeVars, storeVars, epgVars, updVars>>

\* the document is exhausted
IterEnd ==
    /\ pst = "iter"
    /\ pos > Len(doc)
    /\ pst' = "done"
    /\ UNCHANGED <<doc, pos, out, calls>>
    /\ UNCHANGED <<runVars, uiVars, bridgeVars, storeVars, epgVars, updVars>>

\* programs = list(iter_programs(xml)) is loaded: clear_epg, upsert_epg_programs
StoreDecoded ==
    /\ pst = "done"
    /\ pst' = "stored"
    /\ epg' = UpsertEpgPrograms(ClearEpgRows(epg), out, DefaultChunk)
    /\ UNCHANGED <<up, rd, qr>>
    /\ UNCHANGED <<doc, pos, out, calls>>
    /\ UNCHANGED <<runVars, uiVars, bridgeVars, storeVars, updVars>>

NextParse ==
    \/ IterNext
    \/ IterEnd
    \/ StoreDecoded

SpecParse == InitParse /\ [][NextParse]_vars

\* C8 (as amended): every record iter_programs yields and
\* upsert_epg_programs stores has a non-empty tvg_id and non-zero start_ts
\* and stop_ts; stop_ts is not compared with start_ts.
C8_RetainedNonZero ==
    /\ \A k \in DOMAIN out :
           out[k].tvg_id # <<>> /\ out[k].start_ts # 0 /\ out[k].stop_ts # 0
    /\ \A k \in DOMAIN epg :
           epg[k].tvg_id # <<>> /\ epg[k].start_ts # 0 /\ epg[k].stop_ts # 0

\* a stored record that stops before it starts, and one that stops as it starts
C8_Witness ==
    /\ pst = "stored"
    /\ \E k \in DOMAIN epg : epg[k].stop_ts < epg[k].start_ts
    /\ \E k \in DOMAIN epg : epg[k].stop_ts = epg[k].start_ts

\* C8 (as claimed): every record yielded and stored has stop_ts > start_ts.
C8_StopAfterStart ==
    /\ \A k \in DOMAIN out : out[k].stop_ts > out[k].start_ts
    /\ \A k \in DOMAIN epg : epg[k].stop_ts > epg[k].start_ts

\* C9: _parse_xmltv_dt never raises; it returns 0 for a text with no
\* leading 14 digits and an integer otherwise, invalid dates and non-digit
\* offsets included.
C9_NeverRaises ==
    \A k \in DOMAIN calls :
        /\ ~calls[k].res.raised
        /\ ~DtReMatches(Strip(calls[k].text)) => calls[k].res.value = 0

\* what the claimed leniency yields of a document: the programme elements
\* with a non-blank channel and two parsed, non-zero timestamps
LenientlyYielded(elem) ==
    /\ elem.tag = "programme"
    /\ Strip(elem.channel) # <<>>
    /\ ~ParseXmltvDt(elem.start).raised /\ ParseXmltvDt(elem.start).value # 0
    /\ ~ParseXmltvDt(elem.stop).raised /\ ParseXmltvDt(elem.stop).value # 0

RECURSIVE LenientRecords(_)
LenientRecords(d) ==
    IF d = <<>> THEN <<>>
    ELSE IF LenientlyYielded(Head(d))
         THEN <<Prog(Strip(Head(d).channel), ParseXmltvDt(Head(d).start).value,
                     ParseXmltvDt(Head(d).stop).value, Strip(Head(d).title))>>
              \o LenientRecords(Tail(d))
         ELSE LenientRecords(Tail(d))

\* C10: iter_programs yields a record for exactly the programme elements
\* with a non-blank channel and two non-zero parsed timestamps, skips the
\* others silently and still yields every later valid element: no element
\* aborts the iteration.
C10_Leniency ==
    /\ pst # "raised"
    /\ pst \in {"done", "stored"} => out = LenientRecords(doc)

\* =========================================================================
\* epg_npm_bridge.py: find_sites_for_tvg_ids
\* =========================================================================

\* None where a text is expected
NoneText == <<"<None>">>

\* (value or "")
OrEmptyText(v) == IF v = NoneText THEN <<>> ELSE v

\* str.casefold, one character at a time
CasefoldCharKept(c) == <<c>>
CasefoldChar(c) ==
    CASE c = "A" -> <<"a">> [] c = "B" -> <<"b">> [] c = "C" -> <<"c">>
      [] c = "D" -> <<"d">> [] c = "H" -> <<"h">> [] c = "S" -> <<"s">>
      [] c = "ß" -> <<"s", "s">>
      [] OTHER -> <<c>>

RECURSIVE Casefold(_)
Casefold(s) == IF s = <<>> THEN <<>> ELSE CasefoldChar(Head(s)) \o Casefold(Tail(s))

\* v.split("@", 1)[0]
RECURSIVE BeforeAt(_)
BeforeAt(s) ==
    IF s = <<>> \/ Head(s) = "@" THEN <<>> ELSE <<Head(s)>> \o BeforeAt(Tail(s))

\* _canonical_id(value)
CanonicalId(value) ==
    LET v == Strip(OrEmptyText(value))
    IN  IF v = <<>> THEN <<>> ELSE Casefold(Strip(BeforeAt(v)))

\* ---- the tvg-ids and xmltv_ids of the playlists and channels files ----
KeyA == <<"a">>
KeyB == <<"b">>
KeyC == <<"c">>
KeyD == <<"d">>
CoverKeys == {KeyA, KeyB, KeyC, KeyD}
CoverWanted == <<KeyA, KeyB, KeyC, KeyD>>

IdAbHd == <<"A", "B", "@", "H", "D">>
IdAbSd == <<"a", "b", "@", "S", "D">>
IdAb == <<"a", "b">>
IdAbPadded == <<" ", "A", "b", " ", "@", "H", "D", " ">>
IdAtOnly == <<"@", "H", "D">>
IdBlank == <<" ">>
IdSharp == <<"ß">>
IdSs == <<"S", "S">>

\* spellings of the ids, on both sides
SpellingIds == {IdAbHd, IdAbSd, IdAb, IdAbPadded, IdAtOnly, IdBlank, IdSharp,
                IdSs, KeyC, NoneText, <<>>}

IdTexts == CoverKeys \cup SpellingIds

\* (t or "").strip() and _canonical_id of it, tabulated over the ids in use
StrippedOf == [x \in IdTexts |-> Strip(OrEmptyText(x))]
CanonicalOf == [x \in IdTexts |-> CanonicalId(Strip(OrEmptyText(x)))]

\* the keys of a dict kept as the sequence of its items, in insertion order
Keys(d) == {d[i].k : i \in DOMAIN d}

\* _wanted_map(tvg_ids): the items [k |-> canonical id, t |-> original tvg-id]
RECURSIVE WantedMapFrom(_, _)
WantedMapFrom(tvg_ids, acc) ==
    IF tvg_ids = <<>> THEN acc
    ELSE LET t == StrippedOf[Head(tvg_ids)]
             k == CanonicalOf[Head(tvg_ids)]
         IN  IF t = <<>> THEN WantedMapFrom(Tail(tvg_ids), acc)
             ELSE IF k # <<>> /\ k \notin Keys(acc)
                  THEN WantedMapFrom(Tail(tvg_ids), Append(acc, [k |-> k, t |-> t]))
                  ELSE WantedMapFrom(Tail(tvg_ids), acc)

WantedMap(tvg_ids) == WantedMapFrom(tvg_ids, <<>>)

\* a <site>.channels.xml that ET.parse rejects
Unparsable == [parsed |-> FALSE, ids |-> {}]
\* a <site>.channels.xml and the xmltv_id attributes of its channel elements
ChannelsFile(ids) == [parsed |-> TRUE, ids |-> ids]

\* matched: the wanted keys a channels file declares
Matched(file, wanted_keys) ==
    {k \in {CanonicalOf[x] : x \in file.ids} :
        k # <<>> /\ k \in wanted_keys}

\* coverage, as the items [site, matched] in glob order; site i is the
\* directory of the i-th channels file
RECURSIVE CoverageFrom(_, _, _, _)
CoverageFrom(files, i, wanted_keys, acc) ==
    IF i > Len(files) THEN acc
    ELSE IF ~files[i].parsed THEN CoverageFrom(files, i + 1, wanted_keys, acc)
    ELSE LET matched == Matched(files[i], wanted_keys)
         IN  IF matched # {}
             THEN CoverageFrom(files, i + 1, wanted_keys,
                               Append(acc, [site |-> i, matched |-> matched]))
             ELSE CoverageFrom(files, i + 1, wanted_keys, acc)

Coverage(files, wanted_keys) == CoverageFrom(files, 1, wanted_keys, <<>>)

\* coverage[s]
CoverageOf(coverage, s) ==
    coverage[CHOOSE i \in DOMAIN coverage : coverage[i].site = s].matched

\* the sites of coverage whose matched set has n keys, in insertion order
RECURSIVE SitesOfSize(_, _)
SitesOfSize(coverage, n) ==
    IF coverage = <<>> THEN <<>>
    ELSE IF Cardinality(Head(coverage).matched) = n
         THEN <<Head(coverage).site>> \o SitesOfSize(Tail(coverage), n)
         ELSE SitesOfSize(Tail(coverage), n)

\* sorted(coverage.keys(), key=lambda s: len(coverage[s]), reverse=True):
\* the sort is stable, sites of equal size keep their insertion order
RECURSIVE SortedBySizeFrom(_, _)
SortedBySizeFrom(coverage, n) ==
    IF n = 0 THEN <<>>
    ELSE SitesOfSize(coverage, n) \o SortedBySizeFrom(coverage, n - 1)

\* the same list in ascending order of size
RECURSIVE SortedAscendingFrom(_, _)
SortedAscendingFrom(coverage, n) ==
    IF n = 0 THEN <<>>
    ELSE SortedAscendingFrom(coverage, n - 1) \o SitesOfSize(coverage, n)

CandidatesAscending(coverage, wanted_keys) ==
    SortedAscendingFrom(coverage, Cardinality(wanted_keys))
Candidates(coverage, wanted_keys) ==
    SortedBySizeFrom(coverage, Cardinality(wanted_keys))

\* _env_int("IPTV_EPG_MAX_SITES", 12)
DefaultMaxSites == 12

\* int(v) accepts a sign and decimal digits
IntTextAccepts(v) ==
    /\ v # <<>>
    /\ LET body == IF Head(v) \in {"+", "-"} THEN Tail(v) ELSE v
       IN  body # <<>> /\ \A k \in DOMAIN body : body[k] \in Digits

IntTextValue(v) ==
    LET body == IF Head(v) \in {"+", "-"} THEN Tail(v) ELSE v
        n == Number(body, 1, Len(body))
    IN  IF Head(v) = "-" THEN 0 - n ELSE n

\* _env_int(name, default); an unset variable reads as None
EnvInt(value, default) ==
    LET v == Strip(OrEmptyText(value))
    IN  IF v = <<>> THEN default
        ELSE IF IntTextAccepts(v) THEN IntTextValue(v) ELSE default

\* "if gain > best_gain"
BetterAnyGain(gain, best_gain) == gain > 0
Better(gain, best_gain) == gain > best_gain

NoBest == [site |-> 0, gain |-> 0]

\* "for s in candidates": the best site among those not selected
RECURSIVE BestScan(_, _, _, _, _)
BestScan(candidates, selected, coverage, remaining, best) ==
    IF candidates = <<>> THEN best
    ELSE LET s == Head(candidates)
             gain == Cardinality(CoverageOf(coverage, s) \cap remaining)
         IN  IF \E j \in DOMAIN selected : selected[j] = s
             THEN BestScan(Tail(candidates), selected, coverage, remaining, best)
             ELSE IF Better(gain, best.gain)
                  THEN BestScan(Tail(candidates), selected, coverage, remaining,
                                [site |-> s, gain |-> gain])
                  ELSE BestScan(Tail(candidates), selected, coverage, remaining, best)

\* "while remaining and len(selected) < max_sites"
LoopGoesOnPastBudget(remaining, selected, max_sites) ==
    remaining # {} /\ Len(selected) <= max_sites
LoopGoesOn(remaining, selected, max_sites) ==
    remaining # {} /\ Len(selected) < max_sites

\* one turn of the while loop: the locals after it, and whether it broke out
LoopIterBreaksAtOne(candidates, coverage, remaining, selected) ==
    LET best == BestScan(candidates, selected, coverage, remaining, NoBest)
    IN  IF best.gain <= 1
        THEN [broke |-> TRUE, remaining |-> remaining, selected |-> selected]
        ELSE [broke |-> FALSE,
              remaining |-> remaining \ CoverageOf(coverage, best.site),
              selected |-> Append(selected, best.site)]
LoopIterStaleRemaining(candidates, coverage, remaining, selected) ==
    LET best == BestScan(candidates, selected, coverage, remaining, NoBest)
    IN  IF best.gain = 0
        THEN [broke |-> TRUE, remaining |-> remaining, selected |-> selected]
        ELSE [broke |-> FALSE,
              remaining |-> remaining \ {CHOOSE x \in remaining : TRUE},
              selected |-> Append(selected, best.site)]
LoopIter(candidates, coverage, remaining, selected) ==
    LET best == BestScan(candidates, selected, coverage, remaining, NoBest)
    IN  IF best.gain = 0
        THEN [broke |-> TRUE, remaining |-> remaining, selected |-> selected]
        ELSE [broke |-> FALSE,
              remaining |-> remaining \ CoverageOf(coverage, best.site),
              selected |-> Append(selected, best.site)]

\* the whole loop
RECURSIVE Greedy(_, _, _, _, _)
Greedy(candidates, coverage, remaining, selected, max_sites) ==
    IF ~LoopGoesOn(remaining, selected, max_sites) THEN selected
    ELSE LET it == LoopIter(candidates, coverage, remaining, selected)
         IN  IF it.broke THEN selected
             ELSE Greedy(candidates, coverage, it.remaining, it.selected, max_sites)

\* find_sites_for_tvg_ids(repo, tvg_ids) over an existing sites directory
FindSitesForTvgIds(tvg_ids, files, env) ==
    LET wanted == WantedMap(tvg_ids)
        coverage == Coverage(files, Keys(wanted))
        candidates == Candidates(coverage, Keys(wanted))
        max_sites == EnvInt(env, DefaultMaxSites)
    IN  IF wanted = <<>> \/ coverage = <<>> THEN <<>>
        ELSE IF max_sites <= 0 THEN candidates
        ELSE Greedy(candidates, coverage, Keys(wanted), <<>>, max_sites)

\* ---- inputs ----
\* IPTV_EPG_MAX_SITES: unset, or a text
EnvUnset == NoneText
EnvZero == <<"0">>
EnvMinusOne == <<"-", "1">>
EnvOne == <<"1">>
EnvTwo == <<" ", "2", " ">>
EnvWord == <<"a", "b">>
EnvBlank == <<" ">>

SelCall(tvg_ids, files, env, sites_dir) ==
    [pc |-> "call", tvg_ids |-> tvg_ids, files |-> files, env |-> env,
     sites_dir |-> sites_dir,
     wanted |-> <<>>, coverage |-> <<>>, candidates |-> <<>>, max_sites |-> 0,
     remaining |-> {}, selected |-> <<>>, result |-> <<>>]

\* every index of up to MaxSites sites over four wanted keys
\* the channels files of the sites of the index: one to four of the keys
CoverFiles ==
    {ChannelsFile(S) :
        S \in {{KeyA}, {KeyD}, {KeyA, KeyB}, {KeyB, KeyC}, {KeyC, KeyD},
               {KeyA, KeyB, KeyC}, {KeyA, KeyB, KeyC, KeyD}}}

CoverCalls ==
    {SelCall(CoverWanted, files, env, TRUE) :
        files \in SeqsUpTo(CoverFiles, MaxSites),
        env \in {EnvUnset, EnvZero, EnvOne, EnvTwo}}

SpellingWanted ==
    {<<>>} \cup {<<x>> : x \in SpellingIds} \cup {<<x, y>> : x, y \in SpellingIds}
SpellingFiles ==
    {Unparsable, ChannelsFile({})} \cup {ChannelsFile({x}) : x \in SpellingIds}
    \cup {ChannelsFile({IdAbSd, KeyC})}
SpellingCalls ==
    {SelCall(tvg_ids, files, env, sites_dir) :
        tvg_ids \in SpellingWanted,
        files \in {<<>>} \cup {<<f>> : f \in SpellingFiles}
                 \cup {<<ChannelsFile({KeyC}), f>> : f \in SpellingFiles},
        env \in {EnvUnset, EnvMinusOne, EnvWord, EnvBlank},
        sites_dir \in BOOLEAN}

SelCalls == CoverCalls \cup SpellingCalls

InitSelect ==
    /\ EmptyStore /\ EmptyEpg /\ NoUpdate /\ NoParse
    /\ NoBridge /\ NoUi /\ NoRuns

\* find_sites_for_tvg_ids(repo, tvg_ids) is called
FindSitesCall ==
    /\ sel.pc = "idle"
    /\ sel' \in SelCalls
    /\ UNCHANGED <<gen, proc, mrg>>
    /\ UNCHANGED nonBridgeVars

\* the sites directory is looked up and wanted is built
FindSitesWanted ==
    /\ sel.pc = "call"
    /\ sel' = IF ~sel.sites_dir
              THEN [sel EXCEPT !.pc = "raised"]
              ELSE IF WantedMap(sel.tvg_ids) = <<>>
              THEN [sel EXCEPT !.pc = "returned", !.result = <<>>]
              ELSE [sel EXCEPT !.pc = "scan", !.wanted = WantedMap(sel.tvg_ids)]
    /\ UNCHANGED <<gen, proc, mrg>>
    /\ UNCHANGED nonBridgeVars

\* the channels files are scanned into coverage
FindSitesCoverage ==
    /\ sel.pc = "scan"
    /\ sel' = IF Coverage(sel.files, Keys(sel.wanted)) = <<>>
              THEN [sel EXCEPT !.pc = "returned", !.result = <<>>]
              ELSE [sel EXCEPT !.pc = "budget",
                               !.coverage = Coverage(sel.files, Keys(sel.wanted))]
    /\ UNCHANGED <<gen, proc, mrg>>
    /\ UNCHANGED nonBridgeVars

\* candidates are sorted and the budget is read
FindSitesBudget ==
    /\ sel.pc = "budget"
    /\ sel' = IF EnvInt(sel.env, DefaultMaxSites) <= 0
              THEN [sel EXCEPT !.pc = "returned",
                               !.candidates = Candidates(sel.coverage, Keys(sel.wanted)),
                               !.max_sites = EnvInt(sel.env, DefaultMaxSites),
                               !.remaining = Keys(sel.wanted),
                               !.result = Candidates(sel.coverage, Keys(sel.wanted))]
              ELSE [sel EXCEPT !.pc = "loop",
                               !.candidates = Candidates(sel.coverage, Keys(sel.wanted)),
                               !.max_sites = EnvInt(sel.env, DefaultMaxSites),
                               !.remaining = Keys(sel.wanted),
                               !.selected = <<>>]
    /\ UNCHANGED <<gen, proc, mrg>>
    /\ UNCHANGED nonBridgeVars

\* one turn of the while loop, or the break out of it
FindSitesLoop ==
    /\ sel.pc = "loop"
    /\ LoopGoesOn(sel.remaining, sel.selected, sel.max_sites)
    /\ LET it == LoopIter(sel.candidates, sel.coverage, sel.remaining, sel.selected)
       IN  IF it.broke
           THEN sel' = [sel EXCEPT !.pc = "returned", !.result = sel.selected]
           ELSE sel' = [sel EXCEPT !.remaining = it.remaining,
                                   !.selected = it.selected]
    /\ UNCHANGED <<gen, proc, mrg>>
    /\ UNCHANGED nonBridgeVars

\* the while condition fails: return selected
FindSitesReturn ==
    /\ sel.pc = "loop"
    /\ ~LoopGoesOn(sel.remaining, sel.selected, sel.max_sites)
    /\ sel' = [sel EXCEPT !.pc = "returned", !.result = sel.selected]
    /\ UNCHANGED <<gen, proc, mrg>>
    /\ UNCHANGED nonBridgeVars

\* the steps of a call under way
FindSitesRuns ==
    \/ FindSitesWanted
    \/ FindSitesCoverage
    \/ FindSitesBudget
    \/ FindSitesLoop
    \/ FindSitesReturn

NextSelect ==
    \/ FindSitesCall
    \/ FindSitesRuns

SpecSelect == InitSelect /\ [][NextSelect]_vars

\* the call runs on one thread that nothing blocks
SpecSelectFair == SpecSelect /\ WF_vars(FindSitesRuns)

\* the step-by-step call returns what FindSitesForTvgIds computes
FindSitesAgree ==
    (sel.pc = "returned")
        => sel.result = FindSitesForTvgIds(sel.tvg_ids, sel.files, sel.env)

NoDuplicates(q) == \A i, j \in DOMAIN q : q[i] = q[j] => i = j

\* the configured budget of the call
Budget == EnvInt(sel.env, DefaultMaxSites)

\* C13: with a positive budget max_sites the selection has at most max_sites
\* sites, all distinct, and the loop terminates: it is left as soon as
\* remaining is empty, the selection has max_sites sites, or the best gain
\* is zero.
C13_BudgetAndTermination ==
    /\ [](sel.pc # "idle" /\ Budget > 0 =>
            /\ Len(sel.selected) <= Budget /\ NoDuplicates(sel.selected)
            /\ sel.pc = "returned" =>
                   Len(sel.result) <= Budget /\ NoDuplicates(sel.result))
    /\ [][(sel.pc = "loop" /\
             (\/ sel.remaining = {}
              \/ Len(sel.selected) >= sel.max_sites
              \/ \A c \in DOMAIN sel.coverage :
                     (\E j \in DOMAIN sel.selected :
                         sel.selected[j] = sel.coverage[c].site)
                     \/ sel.coverage[c].matched \cap sel.remaining = {}))
            => (sel'.pc = "returned" /\ sel'.result = sel.selected)]_vars
    /\ (sel.pc # "idle") ~> (sel.pc \in {"returned", "raised"})

\* a selection cut by the budget: two sites selected of three useful ones,
\* with keys still uncovered
C13_Witness ==
    /\ sel.pc = "returned"
    /\ Budget = 2
    /\ Len(sel.result) = 2
    /\ sel.remaining # {}
    /\ Len(sel.candidates) = 3
    /\ \E c \in DOMAIN sel.coverage : sel.coverage[c].matched \cap sel.remaining # {}

\* the sites of the index that declare at least one wanted key
CoveringSites ==
    {i \in DOMAIN sel.files :
        /\ sel.files[i].parsed
        /\ \E x \in sel.files[i].ids : \E j \in DOMAIN sel.tvg_ids :
               CanonicalId(x) # <<>> /\ CanonicalId(x) = CanonicalId(sel.tvg_ids[j])}

\* the number of wanted keys site i declares
CoverageSize(i) ==
    Cardinality(({CanonicalId(x) : x \in sel.files[i].ids}
                 \cap {CanonicalId(sel.tvg_ids[j]) : j \in DOMAIN sel.tvg_ids})
                \ {<<>>})

\* C14: with a configured maximum <= 0 the call returns every candidate
\* site, sorted by descending individual coverage size, without the greedy
\* reduction: remaining is left whole.
C14_BudgetEscape ==
    (sel.pc = "returned" /\ Budget <= 0) =>
        /\ NoDuplicates(sel.result)
        /\ {sel.result[j] : j \in DOMAIN sel.result} = CoveringSites
        /\ \A i, j \in DOMAIN sel.result :
               i < j => CoverageSize(sel.result[i]) >= CoverageSize(sel.result[j])
        /\ sel.selected = <<>>
        /\ sel.result # <<>> => sel.remaining = Keys(sel.wanted)

\* three candidates of two different sizes returned with budget 0, the
\* smaller one first in the index
C14_Witness ==
    /\ sel.pc = "returned"
    /\ Budget = 0
    /\ Len(sel.result) = 3
    /\ CoverageSize(1) < CoverageSize(2)
    /\ CoverageSize(3) = CoverageSize(2)
    /\ Cardinality(sel.remaining) = 4

\* the canonical keys of the ids the caller asked for
WantedKeys == {CanonicalOf[sel.tvg_ids[j]] : j \in DOMAIN sel.tvg_ids} \ {<<>>}

\* the wanted keys the channels file of site i declares
SiteKeys(i) ==
    IF sel.files[i].parsed
    THEN {CanonicalOf[x] : x \in sel.files[i].ids} \cap WantedKeys
    ELSE {}

\* the number of wanted keys a set of sites covers
CoveredCount(sites) == Cardinality(UNION {SiteKeys(i) : i \in sites})

\* the largest number of wanted keys any k sites cover
Optimum(k) ==
    CHOOSE n \in 0..Cardinality(WantedKeys) :
        /\ \E T \in SUBSET DOMAIN sel.files : Cardinality(T) <= k /\ CoveredCount(T) = n
        /\ \A T \in SUBSET DOMAIN sel.files : Cardinality(T) <= k => CoveredCount(T) <= n

ResultSites == {sel.result[j] : j \in DOMAIN sel.result}

\* C15: with a positive budget k the selection covers at least (1 - 1/e)
\* of the largest number of wanted keys any k sites cover (1 - 1/e =
\* 0.63212..., compared in integers), and on wanted {a,b,c,d} with sites
\* {a,b}, {b,c}, {d} and k = 2 it covers exactly 3 keys.
C15_GreedyBound ==
    (sel.pc = "returned" /\ Budget > 0) =>
        /\ CoveredCount(ResultSites) * 100000 >= 63212 * Optimum(Budget)
        /\ (/\ sel.tvg_ids = CoverWanted
            /\ Len(sel.files) = 3
            /\ {sel.files[i] : i \in DOMAIN sel.files}
                   = {ChannelsFile({KeyA, KeyB}), ChannelsFile({KeyB, KeyC}),
                      ChannelsFile({KeyD})}
            /\ Budget = 2)
               => CoveredCount(ResultSites) = 3

\* a selection of two sites that covers fewer keys than the best two sites
C15_Witness ==
    /\ sel.pc = "returned"
    /\ Budget = 2
    /\ Len(sel.result) = 2
    /\ CoveredCount(ResultSites) < Optimum(2)

\* the example of C15, in one of its glob orders
C15_WitnessExample ==
    /\ sel.pc = "returned"
    /\ Budget = 2
    /\ sel.files = <<ChannelsFile({KeyD}), ChannelsFile({KeyB, KeyC}),
                     ChannelsFile({KeyA, KeyB})>>
    /\ CoveredCount(ResultSites) = 3

Elem(tag, id, rest) == [tag |-> tag, id |-> id, rest |-> rest]

ChanXFirst == Elem("channel", <<"X">>, "x1")
ChanXSecond == Elem("channel", <<"X">>, "x2")
ChanXPaddedId == Elem("channel", <<" ", "X", " ">>, "x3")
ChanY == Elem("channel", <<"Y">>, "y1")
ChanNoId == Elem("channel", <<>>, "n1")
ChanBlankId == Elem("channel", <<" ">>, "n2")
ProgOne == Elem("programme", <<>>, "p1")
ProgTwo == Elem("programme", <<>>, "p2")
OtherElem == Elem("other", <<>>, "o1")

\* a path that does not exist, a file of size 0, a file holding a document
MissingFile == [state |-> "missing", doc |-> <<>>]
EmptyFile == [state |-> "empty", doc |-> <<>>]
DocFile(d) == [state |-> "doc", doc |-> d]

MergeFiles ==
    {MissingFile, EmptyFile,
     DocFile(<<>>),
     DocFile(<<ChanXFirst, ProgOne>>),
     DocFile(<<ChanXSecond, ProgOne>>),
     DocFile(<<ChanXPaddedId, ChanY, ProgTwo>>),
     DocFile(<<ChanNoId, ChanBlankId, ProgOne, ProgTwo>>),
     DocFile(<<ChanXSecond, ChanXFirst, ProgTwo, ProgTwo>>),
     DocFile(<<OtherElem, ProgTwo, ChanY, ProgOne>>)}

IsChannel(e) == e.tag = "channel"
IsProgramme(e) == e.tag = "programme"

\* (ch.attrib.get("id") or "").strip()
ChannelId(ch) == Strip(ch.id)

\* "if not cid or cid in seen_channels: continue"
SkipsChannelNever(cid, seen_channels) == cid = <<>>
SkipsChannel(cid, seen_channels) == cid = <<>> \/ cid \in seen_channels

\* "for ch in r.findall("channel")"
RECURSIVE MergeChannels(_, _)
MergeChannels(chs, st) ==
    IF chs = <<>> THEN st
    ELSE IF SkipsChannel(ChannelId(Head(chs)), st.seen_channels)
         THEN MergeChannels(Tail(chs), st)
         ELSE MergeChannels(Tail(chs),
                            [st EXCEPT !.seen_channels = @ \cup {ChannelId(Head(chs))},
                                       !.root = Append(@, Head(chs)),
                                       !.chan_count = @ + 1])

\* "for pr in r.findall("programme")"
MergeProgrammesOnce(prs, st) ==
    [st EXCEPT !.root = st.root \o SelectSeq(prs, LAMBDA pr :
                                       \A k \in DOMAIN st.root : st.root[k] # pr),
               !.prog_count = @ + Len(prs)]
MergeProgrammes(prs, st) ==
    [st EXCEPT !.root = @ \o prs, !.prog_count = @ + Len(prs)]

\* one turn of "for f in files"
MergeFile(f, st) ==
    IF f.state # "doc" THEN st
    ELSE MergeProgrammes(SelectSeq(f.doc, IsProgramme),
                         MergeChannels(SelectSeq(f.doc, IsChannel), st))

MergeStart == [seen_channels |-> {}, root |-> <<>>, chan_count |-> 0, prog_count |-> 0]

\* merge_xmltv(files, out_xml): the children of the root it writes
RECURSIVE MergeFrom(_, _)
MergeFrom(files, st) ==
    IF files = <<>> THEN st ELSE MergeFrom(Tail(files), MergeFile(Head(files), st))

MergeXmltv(files) == MergeFrom(files, MergeStart).root

InitMerge ==
    /\ EmptyStore /\ EmptyEpg /\ NoUpdate /\ NoParse
    /\ NoBridge /\ NoUi /\ NoRuns

\* merge_xmltv(files, out_xml) is called
MergeCall ==
    /\ mrg.pc = "idle"
    /\ \E files \in SeqsUpTo(MergeFiles, MaxFiles) :
           mrg' = [pc |-> "files", files |-> files, i |-> 1, st |-> MergeStart,
                   written |-> <<>>]
    /\ UNCHANGED <<sel, gen, proc>>
    /\ UNCHANGED nonBridgeVars

\* one file is skipped or merged
MergeNextFile ==
    /\ mrg.pc = "files"
    /\ mrg.i <= Len(mrg.files)
    /\ mrg' = [mrg EXCEPT !.st = MergeFile(mrg.files[mrg.i], mrg.st), !.i = @ + 1]
    /\ UNCHANGED <<sel, gen, proc>>
    /\ UNCHANGED nonBridgeVars

\* ET.ElementTree(root).write(out_xml)
MergeWrite ==
    /\ mrg.pc = "files"
    /\ mrg.i > Len(mrg.files)
    /\ mrg' = [mrg EXCEPT !.pc = "written", !.written = mrg.st.root]
    /\ UNCHANGED <<sel, gen, proc>>
    /\ UNCHANGED nonBridgeVars

NextMerge ==
    \/ MergeCall
    \/ MergeNextFile
    \/ MergeWrite

SpecMerge == InitMerge /\ [][NextMerge]_vars

\* q without its i-th element
RejectSeq2(q, i) == SubSeq(q, 1, i - 1) \o SubSeq(q, i + 1, Len(q))

\* the channel elements of the input documents, in input order
RECURSIVE InputChannels(_)
InputChannels(files) ==
    IF files = <<>> THEN <<>>
    ELSE (IF Head(files).state = "doc" THEN SelectSeq(Head(files).doc, IsChannel)
          ELSE <<>>) \o InputChannels(Tail(files))

\* the programme elements of the input documents, in input order
RECURSIVE InputProgrammes(_)
InputProgrammes(files) ==
    IF files = <<>> THEN <<>>
    ELSE (IF Head(files).state = "doc" THEN SelectSeq(Head(files).doc, IsProgramme)
          ELSE <<>>) \o InputProgrammes(Tail(files))

\* C18: the output has exactly one channel element per distinct id seen
\* (ids compared trimmed, a channel without id being none), and it is the
\* first element, in input order, that declares the id; later declarations
\* are dropped.
C18_FirstChannelWins ==
    (mrg.pc = "written") =>
        LET inch == InputChannels(mrg.files)
            outch == SelectSeq(mrg.written, IsChannel)
            ids == {Strip(inch[n].id) : n \in DOMAIN inch} \ {<<>>}
        IN  /\ \A k \in DOMAIN outch : Strip(outch[k].id) \in ids
            /\ \A cid \in ids :
                   \E k \in DOMAIN outch :
                       /\ Strip(outch[k].id) = cid
                       /\ \A h \in DOMAIN outch : Strip(outch[h].id) = cid => h = k
                       /\ \E n \in DOMAIN inch :
                              /\ Strip(inch[n].id) = cid
                              /\ \A b \in 1..(n - 1) : Strip(inch[b].id) # cid
                              /\ outch[k] = inch[n]

\* two documents declare channel X differently: the output has the first
C18_Witness ==
    /\ mrg.pc = "written"
    /\ mrg.files = <<DocFile(<<ChanXSecond, ProgOne>>), DocFile(<<ChanXFirst, ProgOne>>)>>
    /\ SelectSeq(mrg.written, IsChannel) = <<ChanXSecond>>

\* C19: programme elements are never deduplicated: the programmes of the
\* output are those of the input documents, concatenated in input order,
\* identical ones included; a missing or empty input adds nothing.
C19_ProgrammesConcatenated ==
    (mrg.pc = "written") =>
        /\ SelectSeq(mrg.written, IsProgramme) = InputProgrammes(mrg.files)
        /\ mrg.st.prog_count = Len(InputProgrammes(mrg.files))
        /\ \A i \in DOMAIN mrg.files :
               mrg.files[i].state # "doc" =>
                   mrg.written = MergeXmltv(RejectSeq2(mrg.files, i))

\* two documents with the same programme, merged into two programmes
C19_Witness ==
    /\ mrg.pc = "written"
    /\ mrg.files = <<DocFile(<<ChanXFirst, ProgOne>>), DocFile(<<ChanXSecond, ProgOne>>)>>
    /\ SelectSeq(mrg.written, IsProgramme) = <<ProgOne, ProgOne>>

\* a missing and an empty file next to a document
C19_WitnessSkipped ==
    /\ mrg.pc = "written"
    /\ mrg.files = <<MissingFile, EmptyFile>>
    /\ mrg.written = <<>>

\* =========================================================================
\* epg_npm_bridge.py: generate_xmltv_for_tvg_ids and npm_grab_site
\* =========================================================================

\* the calls: degenerate ones, and indexes of up to MaxSites sites that each
\* cover part of the wanted ids
GenCalls ==
    {SelCall(tvg_ids, <<ChannelsFile({KeyC})>>, EnvUnset, sites_dir) :
        tvg_ids \in {<<>>, <<IdBlank>>, <<KeyA>>, <<KeyC>>}, sites_dir \in BOOLEAN}
    \cup {SelCall(<<KeyA>>, <<>>, EnvUnset, TRUE)}
    \cup {SelCall(CoverWanted, files, EnvUnset, TRUE) :
             files \in SeqsUpTo({ChannelsFile({KeyA}), ChannelsFile({KeyB}),
                                          ChannelsFile({KeyC})}, MaxSites)}

\* the XMLTV files a grabber run may leave at --output
GrabOutputs ==
    {MissingFile, EmptyFile,
     DocFile(<<ChanXFirst, ProgOne>>), DocFile(<<ChanXSecond, ProgOne>>)}

GenStart(call, found, sites) ==
    [pc |-> "site", call |-> call, found |-> found, sites |-> sites, i |-> 1,
     grabbed |-> <<>>, skipped |-> <<>>, timedout |-> {},
     exc |-> "", result |-> <<>>]

\* an exception leaves generate_xmltv_for_tvg_ids
GenRaised(g, exc) == [g EXCEPT !.pc = "raised", !.exc = exc]

\* "except FileNotFoundError / except RuntimeError": skipped.append(s)
GenSkip(g) == [g EXCEPT !.pc = "site", !.skipped = Append(@, g.sites[g.i]), !.i = @ + 1]

\* the exceptions the try block of the site loop catches
Caught == {"FileNotFoundError", "RuntimeError"}

\* an exception raised inside the try block of the site loop
GenSiteRaises(g, exc) == IF exc \in Caught THEN GenSkip(g) ELSE GenRaised(g, exc)

InitGenerate ==
    /\ EmptyStore /\ EmptyEpg /\ NoUpdate /\ NoParse
    /\ NoBridge /\ NoUi /\ NoRuns

\* generate_xmltv_for_tvg_ids is called: find_sites_for_tvg_ids, "if not sites"
GenCall ==
    /\ gen.pc = "idle"
    /\ \E call \in GenCalls :
           gen' = IF ~call.sites_dir
                  THEN GenRaised(GenStart(call, "raised", <<>>), "FileNotFoundError")
                  ELSE IF FindSitesForTvgIds(call.tvg_ids, call.files, call.env) = <<>>
                  THEN GenRaised(GenStart(call, "returned", <<>>), "RuntimeError")
                  ELSE GenStart(call, "returned",
                                FindSitesForTvgIds(call.tvg_ids, call.files, call.env))
    /\ UNCHANGED <<sel, proc, mrg>>
    /\ UNCHANGED nonBridgeVars

\* build_custom_channels_xml or _which_npm raises: <site>.channels.xml is
\* missing (FileNotFoundError), no channel matches or npm is not installed
\* (RuntimeError)
GenSiteFails ==
    /\ gen.pc = "site"
    /\ gen.i <= Len(gen.sites)
    /\ \E exc \in {"FileNotFoundError", "RuntimeError"} :
           gen' = GenSiteRaises(gen, exc)
    /\ UNCHANGED <<sel, proc, mrg>>
    /\ UNCHANGED nonBridgeVars

\* npm_grab_site reaches subprocess.Popen and reads the grabber's output
GrabStart ==
    /\ gen.pc = "site"
    /\ gen.i <= Len(gen.sites)
    /\ gen' = [gen EXCEPT !.pc = "reading"]
    /\ proc' = [pc |-> "running", stdout |-> "open", overdue |-> FALSE,
                rc |-> 0, file |-> MissingFile]
    /\ UNCHANGED <<sel, mrg>>
    /\ UNCHANGED nonBridgeVars

\* the grabber has run for more than timeout_s
ProcRunsOver ==
    /\ proc.pc = "running"
    /\ ~proc.overdue
    /\ proc' = [proc EXCEPT !.overdue = TRUE]
    /\ UNCHANGED <<sel, gen, mrg>>
    /\ UNCHANGED nonBridgeVars

\* the grabber closes its output and goes on running
ProcClosesStdout ==
    /\ proc.pc = "running"
    /\ proc.stdout = "open"
    /\ proc' = [proc EXCEPT !.stdout = "closed"]
    /\ UNCHANGED <<sel, gen, mrg>>
    /\ UNCHANGED nonBridgeVars

\* the grabber exits
ProcExits ==
    /\ proc.pc = "running"
    /\ \E rc \in {0, 1} : \E file \in GrabOutputs :
           proc' = [proc EXCEPT !.pc = "exited", !.stdout = "closed",
                                !.rc = rc, !.file = file]
    /\ UNCHANGED <<sel, gen, mrg>>
    /\ UNCHANGED nonBridgeVars

\* "for line in p.stdout" ends at end of file
GrabReadEnds ==
    /\ gen.pc = "reading"
    /\ proc.stdout = "closed"
    /\ gen' = [gen EXCEPT !.pc = "waiting"]
    /\ UNCHANGED <<sel, proc, mrg>>
    /\ UNCHANGED nonBridgeVars

\* p.wait(timeout=timeout_s) returns rc; the checks on rc and on out_xml
GrabWaitReturns ==
    /\ gen.pc = "waiting"
    /\ proc.pc = "exited"
    /\ gen' = IF proc.rc # 0 \/ proc.file.state # "doc"
              THEN GenSiteRaises(gen, "RuntimeError")
              ELSE [gen EXCEPT !.pc = "site",
                               !.grabbed = Append(@, [site |-> gen.sites[gen.i],
                                                      file |-> proc.file]),
                               !.i = @ + 1]
    /\ proc' = ProcNone
    /\ UNCHANGED <<sel, mrg>>
    /\ UNCHANGED nonBridgeVars

\* p.wait raises TimeoutExpired: p.kill(), raise TimeoutError
GrabWaitTimesOut ==
    /\ gen.pc = "waiting"
    /\ proc.pc = "running"
    /\ proc.overdue
    /\ gen' = GenSiteRaises([gen EXCEPT !.timedout = @ \cup {gen.sites[gen.i]}],
                            "TimeoutError")
    /\ proc' = [proc EXCEPT !.pc = "killed"]
    /\ UNCHANGED <<sel, mrg>>
    /\ UNCHANGED nonBridgeVars

\* the files of grabbed, in order
GrabbedFiles(grabbed) == [k \in DOMAIN grabbed |-> grabbed[k].file]

\* after the loop: "if not grabbed: raise", else merge and return
GenFinish ==
    /\ gen.pc = "site"
    /\ gen.i > Len(gen.sites)
    /\ gen' = IF gen.grabbed = <<>>
              THEN GenRaised(gen, "RuntimeError")
              ELSE [gen EXCEPT !.pc = "returned",
                               !.result = MergeXmltv(GrabbedFiles(gen.grabbed))]
    /\ UNCHANGED <<sel, proc, mrg>>
    /\ UNCHANGED nonBridgeVars

NextGenerate ==
    \/ GenCall
    \/ GenSiteFails
    \/ GrabStart
    \/ ProcRunsOver
    \/ ProcClosesStdout
    \/ ProcExits
    \/ GrabReadEnds
    \/ GrabWaitReturns
    \/ GrabWaitTimesOut
    \/ GenFinish

SpecGenerate == InitGenerate /\ [][NextGenerate]_vars

\* the sites of a sequence of grabbed entries, in order
GrabbedSites(grabbed) == [k \in DOMAIN grabbed |-> grabbed[k].site]

SkippedSet(g) == {g.skipped[k] : k \in DOMAIN g.skipped}

\* the site loop went through every selected site
LoopCompleted(g) == g.i > Len(g.sites)

\* C11: a grabber run that exceeds timeout_s is a recoverable failure of its
\* site: the site is recorded as skipped, the remaining sites are processed,
\* and generate_xmltv_for_tvg_ids never ends on the timeout of one site.
C11_TimeoutIsSkipped ==
    /\ ~(gen.pc = "raised" /\ gen.exc = "TimeoutError")
    /\ gen.pc \in {"site", "reading", "waiting", "returned", "raised"} =>
           gen.timedout \subseteq SkippedSet(gen)

\* a grabber that ran over timeout_s with its output closed was killed, and
\* the pipeline ended there with sites left to process
C11_TimeoutAborts ==
    /\ gen.pc = "raised"
    /\ gen.exc = "TimeoutError"
    /\ proc.pc = "killed"
    /\ gen.i < Len(gen.sites)
    /\ gen.grabbed # <<>>

\* a grabber that ran over timeout_s while it keeps its output open is still
\* running, and the pipeline is still reading from it
GrabberOutlivesTimeout ==
    /\ gen.pc = "reading"
    /\ proc.pc = "running"
    /\ proc.overdue
    /\ proc.stdout = "open"

\* C12: the failure of one selected site is recorded as a skip and the other
\* sites are still processed; the pipeline fails only when no site produced a
\* file, and otherwise returns the merge of the files of the sites that
\* succeeded, in selection order.
C12_SkipAndContinue ==
    /\ (gen.pc = "raised" /\ gen.sites # <<>>) =>
           (LoopCompleted(gen) /\ gen.grabbed = <<>>)
    /\ gen.pc = "returned" =>
           /\ LoopCompleted(gen)
           /\ gen.grabbed # <<>>
           /\ GrabbedSites(gen.grabbed)
                  = SelectSeq(gen.sites, LAMBDA s : s \notin SkippedSet(gen))
           /\ Len(gen.grabbed) + Len(gen.skipped) = Len(gen.sites)
           /\ gen.result = MergeXmltv(GrabbedFiles(gen.grabbed))

\* the same, for the runs in which no grabber ran over timeout_s
ListedFailuresSkipped ==
    (gen.pc # "idle" /\ gen.timedout = {}) => C12_SkipAndContinue

\* a site was skipped, a later one produced a file, and the merge of the
\* produced files was returned
SkippedThenMerged ==
    /\ gen.pc = "returned"
    /\ gen.skipped # <<>>
    /\ Len(gen.grabbed) = 1
    /\ gen.grabbed[1].site = gen.sites[2]

\* the wanted set is empty or blank, or no site covers a wanted key
Degenerate(call) ==
    \/ WantedMap(call.tvg_ids) = <<>>
    \/ Coverage(call.files, Keys(WantedMap(call.tvg_ids))) = <<>>

\* C17: with an empty or blank wanted set, or with no site covering a wanted
\* key, find_sites_for_tvg_ids returns the empty list without raising, and
\* its caller does not fail on that empty selection.
C17_EmptySelectionLegit ==
    (gen.pc # "idle" /\ Degenerate(gen.call)) =>
        /\ gen.found = "returned"
        /\ gen.sites = <<>>
        /\ gen.pc # "raised"

\* the selector part alone: an empty selection whenever the sites directory
\* exists
EmptySelectionReturned ==
    (gen.pc # "idle" /\ Degenerate(gen.call) /\ gen.call.sites_dir) =>
        (gen.found = "returned" /\ gen.sites = <<>>)

\* the selector returned an empty selection and the caller raised
EmptySelectionRaises ==
    /\ gen.pc = "raised"
    /\ gen.found = "returned"
    /\ gen.sites = <<>>
    /\ gen.exc = "RuntimeError"

\* =========================================================================
\* ui/main_window.py: the editor's channels written to the store and reloaded
\* =========================================================================

\* core.models.Channel
Channel(extinf, url, name, group, tvg_id, vlc_opts, status) ==
    [extinf |-> extinf, url |-> url, name |-> name, group |-> group,
     tvg_id |-> tvg_id, vlc_opts |-> vlc_opts, status |-> status]

\* the channels of the editor: one with two #EXTVLCOPT options, one with none
ChanWithOpts ==
    Channel("e", "u", "a", "g", "t", <<"http-referrer=r", "network-caching=1000">>, "OK")
ChanPlain == Channel("f", "v", "b", "", "", <<>>, "-")
EditorChannels == {ChanWithOpts, ChanPlain}

\* r.get(key, default)
DictGet(r, key, default) == IF key \in DOMAIN r THEN r[key] ELSE default

\* the payload on_export_salon hands to replace_channels
ExportPayload(data) ==
    [i \in 1..Len(data) |->
        [name |-> data[i].name, group |-> data[i].group, tvg_id |-> data[i].tvg_id,
         url |-> data[i].url, extinf |-> data[i].extinf,
         vlc_opts |-> data[i].vlc_opts]]

\* _channels_from_db_rows
ChannelsFromDbRows(rows) ==
    [i \in 1..Len(rows) |->
        Channel(DictGet(rows[i], "extinf", ""), DictGet(rows[i], "url", ""),
                DictGet(rows[i], "name", ""), DictGet(rows[i], "group", ""),
                DictGet(rows[i], "tvg_id", ""), DictGet(rows[i], "vlc_opts", <<>>),
                "-")]

InitExport ==
    /\ EmptyStore /\ EmptyEpg /\ NoUpdate /\ NoParse
    /\ NoBridge /\ NoUi /\ NoRuns

\* replace_channels(pid, payload) of on_export_salon, on a playlist that
\* exists: DELETE, executemany, commit
ExportReplaceChannels(pid, data) ==
    /\ edit.pc \in {"idle", "loaded"}
    /\ pid \in playlists
    /\ channels' = RejectSeq(channels, pid) \o ChannelRows(pid, ExportPayload(data))
    /\ edit' = [pc |-> "exported", pid |-> pid, data |-> data]
    /\ UNCHANGED <<playlists, seq, wr, got, lastDelete>>
    /\ UNCHANGED <<probe, sigq, db>>
    /\ UNCHANGED <<epgVars, updVars, parseVars, bridgeVars, runVars>>

\* on_salon_quickload: get_channels(pid), _channels_from_db_rows
SalonQuickload ==
    /\ edit.pc = "exported"
    /\ edit' = [pc |-> "loaded", pid |-> edit.pid, data |-> edit.data,
                channels |-> ChannelsFromDbRows(GetChannelsOf(channels, edit.pid))]
    /\ UNCHANGED storeVars
    /\ UNCHANGED <<probe, sigq, db>>
    /\ UNCHANGED <<epgVars, updVars, parseVars, bridgeVars, runVars>>

NextExport ==
    \/ AddPlaylist
    \/ \E pid \in PlaylistIds, data \in SeqsUpTo(EditorChannels, MaxChans) :
           ExportReplaceChannels(pid, data)
    \/ SalonQuickload

SpecExport == InitExport /\ [][NextExport]_vars

\* C21: a channel written through replace_channels and read back through
\* get_channels and _channels_from_db_rows has the option strings it was
\* written with, in the same order.
C21_OptionsKept ==
    edit.pc = "loaded" =>
        /\ Len(edit.channels) = Len(edit.data)
        /\ \A i \in DOMAIN edit.data :
               edit.channels[i].vlc_opts = edit.data[i].vlc_opts

\* the five columns of the table do come back
ColumnsKept ==
    edit.pc = "loaded" =>
        /\ Len(edit.channels) = Len(edit.data)
        /\ \A i \in DOMAIN edit.data :
               /\ edit.channels[i].name = edit.data[i].name
               /\ edit.channels[i].group = edit.data[i].group
               /\ edit.channels[i].tvg_id = edit.data[i].tvg_id
               /\ edit.channels[i].url = edit.data[i].url
               /\ edit.channels[i].extinf = edit.data[i].extinf

\* a channel exported with two options came back with none
OptionsLost ==
    /\ edit.pc = "loaded"
    /\ edit.data = <<ChanPlain, ChanWithOpts>>
    /\ edit.channels[2].vlc_opts = <<>>
    /\ edit.channels[2].url = "u"

\* =========================================================================
\* storage.py: delete_playlist over stored playlists, channels and programs
\* =========================================================================

\* the ids handed to delete_playlist: the ids in use and one never assigned
DeleteIds == PlaylistIds \cup {3}

\* stores the program can be in: ids handed out in order, channels of
\* playlists that exist (the foreign key is enforced), some programs
InitDelete ==
    /\ NoUpdate /\ NoParse /\ NoBridge /\ NoUi /\ NoRuns
    /\ seq \in {0} \cup PlaylistIds
    /\ playlists \in SUBSET {p \in PlaylistIds : p <= seq}
    /\ channels \in SeqsUpTo({ChannelRow(p, c) : p \in playlists, c \in ChanDicts},
                             MaxChans)
    /\ wr = WrIdle /\ got = GotIdle /\ lastDelete = NoDelete
    /\ epg \in {<<>>, <<ProgramRow(ProgA)>>}
    /\ up = UpIdle /\ rd = RdIdle /\ qr = QrNone

NextDelete ==
    \/ AddPlaylist
    \/ \E pid \in DeleteIds : DeletePlaylist(pid)

SpecDelete == InitDelete /\ [][NextDelete]_vars

\* C22: delete_playlist(id) of an id that is not in the store changes
\* nothing; any delete_playlist(id) removes id and its channels only: the
\* other playlists, their channels and the EPG programs are what they were.
C22_DeleteLocal ==
    [][\A pid \in DeleteIds : DeletePlaylist(pid) =>
           /\ playlists' = playlists \ {pid}
           /\ GetChannelsOf(channels', pid) = <<>>
           /\ \A q \in DeleteIds \ {pid} :
                  GetChannelsOf(channels', q) = GetChannelsOf(channels, q)
           /\ Len(channels') = Len(channels) - Len(GetChannelsOf(channels, pid))
           /\ epg' = epg
           /\ pid \notin playlists => (playlists' = playlists /\ channels' = channels)]_vars

\* a playlist with channels was deleted while the other playlist, its
\* channels and a program are in the store
C22_Witness ==
    /\ lastDelete.existed /\ lastDelete.cascaded
    /\ \E q \in playlists : GetChannelsOf(channels, q) # <<>>
    /\ epg # <<>>

\* an id that is not in the store was deleted from a store that holds a
\* playlist with channels
C22_WitnessAbsent ==
    /\ lastDelete.pid # 0 /\ ~lastDelete.existed
    /\ channels # <<>>

\* =========================================================================
\* storage.py: get_now_next and list_epg_programs over spellings of one id
\* =========================================================================

\* three spellings of one channel id and their characters
LookupTvgIds == {"ab", "ab@SD", "AB"}
CharsOf(t) ==
    CASE t = "ab" -> IdAb
      [] t = "ab@SD" -> IdAbSd
      [] t = "AB" -> <<"A", "B">>

\* programs stored under the three spellings, told apart by their title
LookupProgs ==
    {Prog("ab", 100, 200, "own"), Prog("ab", 200, 300, "own-next"),
     Prog("ab@SD", 100, 200, "suffixed"), Prog("ab@SD", 200, 300, "suffixed-next"),
     Prog("AB", 100, 200, "upper"), Prog("AB", 200, 300, "upper-next")}
LookupTimes == {150, 250}

InitLookup ==
    /\ EmptyStore /\ NoUpdate /\ NoParse /\ NoBridge /\ NoUi /\ NoRuns
    /\ epg \in {ProgramRows(ps) : ps \in SeqsUpTo(LookupProgs, MaxStored)}
    /\ up = UpIdle
    /\ rd = RdIdle
    /\ qr = QrNone

NextLookup ==
    \/ \E tvg_id \in LookupTvgIds, now_ts \in LookupTimes : GetNowNext(tvg_id, now_ts)
    \/ \E tvg_id \in LookupTvgIds, start_ts \in LookupTimes :
           ListEpgProgramsCall(tvg_id, start_ts, start_ts + 100, DefaultLimit)
    \/ QueryReturn

SpecLookup == InitLookup /\ [][NextLookup]_vars

\* the stored ids of the rows a returned dict can come from
StoredIdsOf(d) ==
    {epg[i].tvg_id : i \in {j \in DOMAIN epg : epg[j].title = d.title}}

\* C23: get_now_next(t, ...) and list_epg_programs(t, ...) return only rows
\* whose stored tvg_id is t character for character: a row stored under
\* another spelling of the same canonical key is never returned.
C23_ExactLookup ==
    /\ qr.op = "get_now_next" =>
           /\ qr.now # NoRow => StoredIdsOf(qr.now[1]) = {qr.tvg_id}
           /\ qr.next # NoRow => StoredIdsOf(qr.next[1]) = {qr.tvg_id}
    /\ qr.op = "list_epg_programs" =>
           /\ \A k \in DOMAIN qr.ids : epg[qr.ids[k]].tvg_id = qr.tvg_id
           /\ \A k \in DOMAIN qr.rows : StoredIdsOf(qr.rows[k]) = {qr.tvg_id}

\* "ab" was looked up in a store that holds a current program under each of
\* the three spellings, which the selector takes for one key: only the row
\* stored under "ab" came back
C23_Witness ==
    /\ qr.op = "get_now_next" /\ qr.tvg_id = "ab" /\ qr.now_ts = 150
    /\ {epg[i].title : i \in DOMAIN epg} = {"own", "suffixed", "upper"}
    /\ qr.now # NoRow /\ qr.now[1].title = "own"
    /\ qr.next = NoRow
    /\ \A t \in LookupTvgIds : CanonicalId(CharsOf(t)) = CanonicalId(IdAb)

\* list_epg_programs("ab", ...) in the same store
C23_WitnessList ==
    /\ qr.op = "list_epg_programs" /\ qr.tvg_id = "ab" /\ qr.start_ts = 150
    /\ {epg[i].title : i \in DOMAIN epg} = {"own", "suffixed", "upper"}
    /\ Len(qr.rows) = 1 /\ qr.rows[1].title = "own"

\* ---- the greedy step of find_sites_for_tvg_ids ----

\* the sites selected so far in the loop
SelectedSites == {sel.selected[j] : j \in DOMAIN sel.selected}

\* the keys of remaining that site i would add
GainOf(i, remaining) == Cardinality(SiteKeys(i) \cap remaining)

\* the wanted keys left before the k-th site of the result was selected
RemainingBefore(k) == WantedKeys \ UNION {SiteKeys(sel.result[j]) : j \in 1..(k - 1)}

\* the marginal gain of the k-th site of the result
GainAt(k) == GainOf(sel.result[k], RemainingBefore(k))

\* C24: a site appended to selected by a turn of the loop is an unselected
\* site covering a wanted key, its gain over remaining is at least 1 and the
\* largest among the unselected sites, and remaining loses exactly its keys;
\* the marginal gains of the returned sites are non-increasing in output
\* order.
C24_GreedyStep ==
    /\ [][(sel.pc = "loop" /\ sel'.pc = "loop" /\ sel'.selected # sel.selected) =>
              LET s == sel'.selected[Len(sel'.selected)]
              IN  /\ sel'.selected = Append(sel.selected, s)
                  /\ s \in CoveringSites \ SelectedSites
                  /\ GainOf(s, sel.remaining) >= 1
                  /\ \A i \in CoveringSites \ SelectedSites :
                         GainOf(i, sel.remaining) <= GainOf(s, sel.remaining)
                  /\ sel'.remaining = sel.remaining \ SiteKeys(s)]_vars
    /\ []((sel.pc = "returned" /\ Budget > 0) =>
              \A k \in 1..(Len(sel.result) - 1) : GainAt(k) >= GainAt(k + 1))

\* three sites were returned with gains 2, 1, 1
C24_Witness ==
    /\ sel.pc = "returned" /\ Budget > 0
    /\ Len(sel.result) = 3
    /\ GainAt(1) = 2 /\ GainAt(2) = 1 /\ GainAt(3) = 1

\* C27: a selection, under a positive budget, of fewer than max_sites sites
\* covers every wanted key that some site covers: no site left out would
\* add a key, and the keys left in remaining when the loop is left (the
\* ones the call reports as uncovered) are the wanted keys that no site
\* declares.
C27_ShortSelectionComplete ==
    (sel.pc = "returned" /\ Budget > 0 /\ Len(sel.result) < Budget) =>
        /\ CoveredCount(ResultSites) = CoveredCount(DOMAIN sel.files)
        /\ \A i \in DOMAIN sel.files \ ResultSites :
               SiteKeys(i) \subseteq UNION {SiteKeys(j) : j \in ResultSites}
        /\ sel.coverage # <<>> =>
               sel.remaining = WantedKeys \ UNION {SiteKeys(i) : i \in DOMAIN sel.files}

\* one site was returned under a budget of two, a second site was left out
\* because it adds nothing, and a wanted key that no site declares is left
C27_Witness ==
    /\ sel.pc = "returned" /\ Budget = 2
    /\ Len(sel.result) = 1
    /\ Cardinality(CoveringSites) >= 2
    /\ sel.remaining # {}

\* ---- upsert_epg_programs that raises ----

\* C26: when upsert_epg_programs raises, no record of the call is in the
\* store, the batches already handed to executemany included, and the rows
\* that were there are unchanged: the table is the one the call found when
\* it took the write lock, or the current one if it had not written yet.
C26_AllOrNothing ==
    [][(up.pc = "loop" /\ up' = UpRaised) =>
           /\ epg' = epg
           /\ up.flushed > 0 => epg' = up.base
           /\ \A rows \in ListEpgPrograms(epg', "X", 0, 400, DefaultLimit) :
                  \A rows0 \in ListEpgPrograms(IF up.flushed > 0 THEN up.base ELSE epg,
                                               "X", 0, 400, DefaultLimit) :
                      Len(rows) = Len(rows0)]_vars

\* a call over a table that holds a row has flushed a batch and has a
\* record of the next batch in buf: an exception now loses all of it
C26_Witness ==
    /\ up.pc = "loop"
    /\ up.flushed > 0 /\ up.st.buf # <<>>
    /\ up.base # <<>>

\* =========================================================================
\* storage.py: the connection of each public operation
\* =========================================================================

\* the public operations that execute a statement and commit
WriteOps ==
    {"add_playlist", "delete_playlist", "replace_channels", "update_playlist",
     "add_epg_source", "set_epg_source_enabled", "clear_epg", "upsert_epg_programs"}
\* the public operations that only select
ReadOps ==
    {"list_playlists", "get_channels", "list_epg_sources", "get_now_next",
     "list_epg_programs"}
StorageOps == WriteOps \cup ReadOps

\* db when no operation runs: the connections still open, and how the last
\* operation ended
DbBetween(open, ended) == [pc |-> "idle", open |-> open, ended |-> ended]

\* an operation at some point: con is open or not, a transaction is open or
\* not, an exception is on its way or not
DbAt(pc, op, open, con, txn, exc) ==
    [pc |-> pc, op |-> op, open |-> open, con |-> con, txn |-> txn, exc |-> exc]

InitConn ==
    /\ EmptyStore /\ EmptyEpg /\ NoUpdate /\ NoParse /\ NoBridge /\ NoRuns
    /\ edit = EditIdle /\ probe = ProbeNone /\ sigq = <<>>
    /\ db = DbBetween(0, "none")

\* a public operation is called; list_epg_programs with an empty tvg_id
\* returns [] before it connects
DbCall(op, arg_empty) ==
    /\ db.pc = "idle"
    /\ db.open < MaxLeaked
    /\ db' = IF op = "list_epg_programs" /\ arg_empty
             THEN DbAt("return", op, db.open, FALSE, FALSE, FALSE)
             ELSE DbAt("connect", op, db.open, FALSE, FALSE, FALSE)
    /\ UNCHANGED <<edit, probe, sigq>>
    /\ UNCHANGED nonUiVars

\* _connect: sqlite3.connect(self.db_path); it raises when the file cannot
\* be opened, and no connection exists then
DbConnect ==
    /\ db.pc = "connect"
    /\ \/ db' = [db EXCEPT !.pc = "pragma", !.open = @ + 1, !.con = TRUE]
       \/ db' = [db EXCEPT !.pc = "return", !.exc = TRUE]
    /\ UNCHANGED <<edit, probe, sigq>>
    /\ UNCHANGED nonUiVars

\* _connect: the two PRAGMA statements, the first statements to read the
\* file; an engine error leaves _connect with con open, outside any try
DbPragma ==
    /\ db.pc = "pragma"
    /\ \/ db' = [db EXCEPT !.pc = "body"]
       \/ db' = [db EXCEPT !.pc = "return", !.exc = TRUE]
    /\ UNCHANGED <<edit, probe, sigq>>
    /\ UNCHANGED nonUiVars

\* the try block: the statements of the operation; a write opens a
\* transaction; an engine error (or a bad argument) goes to finally
DbExecute ==
    /\ db.pc = "body"
    /\ \/ db' = [db EXCEPT !.pc = IF db.op \in WriteOps THEN "commit" ELSE "finally",
                           !.txn = db.op \in WriteOps]
       \/ db' = [db EXCEPT !.pc = "finally", !.exc = TRUE]
       \/ /\ db.op = "upsert_epg_programs"
          /\ db' = [db EXCEPT !.pc = "finally", !.txn = TRUE, !.exc = TRUE]
    /\ UNCHANGED <<edit, probe, sigq>>
    /\ UNCHANGED nonUiVars

\* con.commit()
DbCommit ==
    /\ db.pc = "commit"
    /\ \/ db' = [db EXCEPT !.pc = "finally", !.txn = FALSE]
       \/ db' = [db EXCEPT !.pc = "finally", !.exc = TRUE]
    /\ UNCHANGED <<edit, probe, sigq>>
    /\ UNCHANGED nonUiVars

\* finally: con.close(), which discards an open transaction
DbFinally ==
    /\ db.pc = "finally"
    /\ db' = [db EXCEPT !.pc = "return", !.open = @ - 1, !.con = FALSE, !.txn = FALSE]
    /\ UNCHANGED <<edit, probe, sigq>>
    /\ UNCHANGED nonUiVars

\* the operation returns to its caller, or its exception reaches the caller
DbReturn ==
    /\ db.pc = "return"
    /\ db' = DbBetween(db.open, IF db.exc THEN "raised" ELSE "returned")
    /\ UNCHANGED <<edit, probe, sigq>>
    /\ UNCHANGED nonUiVars

\* a connection no operation closed is closed when the interpreter frees
\* it, at a time the program does not choose
DbCollected ==
    /\ db.pc = "idle"
    /\ db.open > 0
    /\ db' = [db EXCEPT !.open = @ - 1]
    /\ UNCHANGED <<edit, probe, sigq>>
    /\ UNCHANGED nonUiVars

NextConn ==
    \/ \E op \in StorageOps, arg_empty \in BOOLEAN : DbCall(op, arg_empty)
    \/ DbConnect
    \/ DbPragma
    \/ DbExecute
    \/ DbCommit
    \/ DbFinally
    \/ DbReturn
    \/ DbCollected

SpecConn == InitConn /\ [][NextConn]_vars

\* C25: a public Storage operation has closed the connection it opened when
\* it returns or raises, with no transaction left open: no connection is
\* open between two operations; an error inside an operation reaches the
\* caller, and the operation is not run again.
C25_ConnectionsClosed ==
    /\ [](db.pc \in {"idle", "return"} => db.open = 0)
    /\ [](db.pc = "return" => (~db.con /\ ~db.txn))
    /\ [][(db.pc # "idle" /\ db.exc) =>
              IF db'.pc = "idle" THEN db'.ended = "raised" ELSE db'.exc]_vars

\* the operations whose _connect returned do close their connection, and
\* errors are passed on
ClosedAfterTry ==
    /\ [][(db.pc = "finally") =>
              (db'.pc = "return" /\ ~db'.con /\ ~db'.txn /\ db'.open = db.open - 1)]_vars
    /\ [][(db.pc # "idle" /\ db.exc) =>
              IF db'.pc = "idle" THEN db'.ended = "raised" ELSE db'.exc]_vars
    /\ [](db.pc = "return" => (~db.txn /\ (db.con => db.exc)))

\* an operation raised out of _connect and left its connection open
ConnectionLeftOpen ==
    /\ db.pc = "idle"
    /\ db.ended = "raised"
    /\ db.open = 1

\* =========================================================================
\* ui/main_window.py + workers/probe_worker.py: the probe run of the editor
\* =========================================================================

\* a channel of the editor: id stands for the Channel object, has_url for a
\* non-blank url
EditorChannel(id, has_url, status) == [id |-> id, has_url |-> has_url, status |-> status]

\* the lists the editor may hold when the user starts a test: channels
\* 1..n, each with or without a url, none probed yet
ProbedLists ==
    {[i \in 1..n |-> EditorChannel(i, u[i], "-")] :
        n \in 1..MaxProbed, u \in [1..MaxProbed -> BOOLEAN]}

\* the signals of ProbeWorker
Progress(row, status) == [sig |-> "progress", row |-> row, status |-> status]
ProgressCount(done, total) == [sig |-> "progress_count", done |-> done, total |-> total]
Finished == [sig |-> "finished"]

\* "c.status.startswith('KO')"
IsKo(status) == status \in {"KO", "KO (no url)", "KO (worker exception)"}

\* [c for c in self.channels if not c.status.startswith("KO")]
WithoutKo(chs) == SelectSeq(chs, LAMBDA c : ~IsKo(c.status))

\* [c for c in self.channels if (c.name, c.url) not in selected_keys]
WithoutId(chs, id) == SelectSeq(chs, LAMBDA c : c.id # id)

\* _merge_channels: the channels with a url, then the new one
Merged(chs, new) == Append(SelectSeq(chs, LAMBDA c : c.has_url), new)

\* the window before a run
\*   thread   self._probe_thread is set
\*   fresh    the id of the next channel an import or a merge brings
\*   wrote    ghost: the last one handled by on_probe_progress: the channel
\*            of the snapshot the status is about, and the channel written
\*            (0: IndexError)
EditorWith(chs) ==
    [channels |-> chs, thread |-> FALSE, done |-> 0, total |-> 0,
     fresh |-> MaxProbed + 1, wrote |-> <<>>, runs |-> 0]

InitProbe ==
    /\ EmptyStore /\ EmptyEpg /\ NoUpdate /\ NoParse /\ NoBridge /\ NoRuns
    /\ edit \in {EditorWith(chs) : chs \in ProbedLists}
    /\ probe = ProbeNone
    /\ sigq = <<>>
    /\ db = DbIdle

\* on_test: refused without channels or while a run is active; else a
\* ProbeWorker over list(self.channels) is started in its thread
OnTest ==
    /\ edit.channels # <<>>
    /\ ~edit.thread
    /\ edit.runs < MaxProbeRuns
    /\ edit' = [edit EXCEPT !.thread = TRUE, !.done = 0, !.total = Len(edit.channels),
                            !.runs = @ + 1]
    /\ probe' = [pc |-> "submit", channels |-> edit.channels, idx |-> 1,
                 stop |-> FALSE, pending |-> {}, done |-> 0,
                 total |-> Len(edit.channels), raised |-> FALSE, emitted |-> <<>>]
    /\ UNCHANGED <<sigq, db>>
    /\ UNCHANGED nonUiVars

\* on_stop
OnStop ==
    /\ probe.pc # "none"
    /\ ~probe.stop
    /\ probe' = [probe EXCEPT !.stop = TRUE]
    /\ UNCHANGED <<edit, sigq, db>>
    /\ UNCHANGED nonUiVars

\* ProbeWorker.run, one turn of "for idx, ch in enumerate(self.channels)"
ProbeSubmit ==
    /\ probe.pc = "submit"
    /\ IF probe.stop \/ probe.idx > Len(probe.channels)
       THEN /\ probe' = [probe EXCEPT !.pc = "collect"]
            /\ UNCHANGED sigq
       ELSE IF ~probe.channels[probe.idx].has_url
       THEN /\ probe' = [probe EXCEPT !.idx = @ + 1,
                                      !.emitted = Append(@, Progress(probe.idx, "KO (no url)"))]
            /\ sigq' = Append(sigq, Progress(probe.idx, "KO (no url)"))
       ELSE /\ probe' = [probe EXCEPT !.idx = @ + 1, !.pending = @ \cup {probe.idx}]
            /\ UNCHANGED sigq
    /\ UNCHANGED <<edit, db>>
    /\ UNCHANGED nonUiVars

\* one turn of "for fut in as_completed(future_map)": a probe completes, in
\* any order; with _stop set the loop is left
ProbeCollect ==
    /\ probe.pc = "collect"
    /\ probe.pending # {}
    /\ \E idx \in probe.pending : \E status \in {"OK", "KO"} :
           IF probe.stop
           THEN /\ probe' = [probe EXCEPT !.pc = "finally"]
                /\ UNCHANGED sigq
           ELSE /\ probe' = [probe EXCEPT
                                !.pending = @ \ {idx},
                                !.done = @ + 1,
                                !.emitted = @ \o <<Progress(idx, status),
                                                   ProgressCount(probe.done + 1, probe.total)>>]
                /\ sigq' = sigq \o <<Progress(idx, status),
                                     ProgressCount(probe.done + 1, probe.total)>>
    /\ UNCHANGED <<edit, db>>
    /\ UNCHANGED nonUiVars

\* every future was collected
ProbeCollected ==
    /\ probe.pc = "collect"
    /\ probe.pending = {}
    /\ probe' = [probe EXCEPT !.pc = "finally"]
    /\ UNCHANGED <<edit, sigq, db>>
    /\ UNCHANGED nonUiVars

\* "except Exception": something raised inside the try block
ProbeException ==
    /\ probe.pc \in {"submit", "collect"}
    /\ probe' = [probe EXCEPT !.pc = "finally", !.raised = TRUE,
                              !.emitted = Append(@, Progress(1, "KO (worker exception)"))]
    /\ sigq' = Append(sigq, Progress(1, "KO (worker exception)"))
    /\ UNCHANGED <<edit, db>>
    /\ UNCHANGED nonUiVars

\* finally: self.finished.emit()
ProbeFinally ==
    /\ probe.pc = "finally"
    /\ probe' = [probe EXCEPT !.pc = "done", !.emitted = Append(@, Finished)]
    /\ sigq' = Append(sigq, Finished)
    /\ UNCHANGED <<edit, db>>
    /\ UNCHANGED nonUiVars

\* on_probe_progress(row, status), queued to the main thread:
\* self.channels[row].status = status
OnProbeProgress ==
    /\ sigq # <<>>
    /\ Head(sigq).sig = "progress"
    /\ LET row == Head(sigq).row
           about == probe.channels[row].id
       IN  IF row > Len(edit.channels)
           THEN edit' = [edit EXCEPT !.wrote = <<[about |-> about, written |-> 0]>>]
           ELSE edit' = [edit EXCEPT
                            !.channels[row].status = Head(sigq).status,
                            !.wrote = <<[about |-> about,
                                         written |-> edit.channels[row].id]>>]
    /\ sigq' = Tail(sigq)
    /\ UNCHANGED <<probe, db>>
    /\ UNCHANGED nonUiVars

\* on_probe_progress_count(done, total)
OnProbeProgressCount ==
    /\ sigq # <<>>
    /\ Head(sigq).sig = "progress_count"
    /\ edit' = [edit EXCEPT !.done = Head(sigq).done, !.total = Head(sigq).total]
    /\ sigq' = Tail(sigq)
    /\ UNCHANGED <<probe, db>>
    /\ UNCHANGED nonUiVars

\* on_probe_finished
OnProbeFinished ==
    /\ sigq # <<>>
    /\ Head(sigq).sig = "finished"
    /\ edit' = [edit EXCEPT !.thread = FALSE]
    /\ probe' = ProbeNone
    /\ sigq' = Tail(sigq)
    /\ UNCHANGED db
    /\ UNCHANGED nonUiVars

\* on_delete_dead
OnDeleteDead ==
    /\ edit' = [edit EXCEPT !.channels = WithoutKo(edit.channels)]
    /\ UNCHANGED <<probe, sigq, db>>
    /\ UNCHANGED nonUiVars

\* on_delete_selected with one row selected
OnDeleteSelected(row) ==
    /\ row \in DOMAIN edit.channels
    /\ edit' = [edit EXCEPT !.channels = WithoutId(edit.channels, edit.channels[row].id)]
    /\ UNCHANGED <<probe, sigq, db>>
    /\ UNCHANGED nonUiVars

\* import_m3u_text: self.channels = parse_m3u(text), here of one channel
ImportM3uText ==
    /\ edit.fresh <= MaxProbed + MaxImported
    /\ edit' = [edit EXCEPT !.channels = <<EditorChannel(edit.fresh, TRUE, "-")>>,
                            !.fresh = @ + 1]
    /\ UNCHANGED <<probe, sigq, db>>
    /\ UNCHANGED nonUiVars

\* _merge_channels with one new channel
MergeChannelsNew ==
    /\ edit.fresh <= MaxProbed + MaxImported
    /\ edit' = [edit EXCEPT
                   !.channels = Merged(edit.channels, EditorChannel(edit.fresh, TRUE, "-")),
                   !.fresh = @ + 1]
    /\ UNCHANGED <<probe, sigq, db>>
    /\ UNCHANGED nonUiVars

NextProbe ==
    \/ OnTest
    \/ OnStop
    \/ ProbeSubmit
    \/ ProbeCollect
    \/ ProbeCollected
    \/ ProbeException
    \/ ProbeFinally
    \/ OnProbeProgress
    \/ OnProbeProgressCount
    \/ OnProbeFinished
    \/ OnDeleteDead
    \/ \E row \in 1..(MaxProbed + MaxImported) : OnDeleteSelected(row)
    \/ ImportM3uText
    \/ MergeChannelsNew

SpecProbe == InitProbe /\ [][NextProbe]_vars

\* ---- the probe run: where a status lands ----

\* C28: a status reported for a row of the worker's snapshot is written to
\* the channel that is at that row of the snapshot, whatever the editor did
\* to its list since on_test, and on_probe_progress never indexes past the
\* end of the list.
C28_StatusOnProbedChannel ==
    \A w \in {edit.wrote[k] : k \in DOMAIN edit.wrote} :
        /\ w.written # 0
        /\ w.written = w.about

\* with the list left alone during the run, every status lands on its channel
ListChanged ==
    \/ OnDeleteDead
    \/ \E row \in 1..(MaxProbed + MaxImported) : OnDeleteSelected(row)
    \/ ImportM3uText
    \/ MergeChannelsNew

\* a status about one channel was written to another one
StatusOnOtherChannel ==
    /\ edit.wrote # <<>>
    /\ edit.wrote[1].written # 0
    /\ edit.wrote[1].written # edit.wrote[1].about

\* on_probe_progress indexed past the end of the list
StatusPastTheEnd ==
    /\ edit.wrote # <<>>
    /\ edit.wrote[1].written = 0

\* ---- the probe run: what the worker emits ----

EmittedAt(sig) == {k \in DOMAIN probe.emitted : probe.emitted[k].sig = sig}

ProgressAbout(idx) ==
    {k \in EmittedAt("progress") : probe.emitted[k].row = idx}

\* the run went through both loops with _stop never set and nothing raised
RanToTheEnd == probe.pc = "done" /\ ~probe.stop /\ ~probe.raised

\* finished is emitted once, as the last signal of the run
FinishedOnceAndLast ==
    probe.pc # "none" =>
        /\ Cardinality(EmittedAt("finished")) <= 1
        /\ probe.pc = "done" <=> EmittedAt("finished") # {}
        /\ EmittedAt("finished") \subseteq {Len(probe.emitted)}

\* every index of the snapshot got one progress status
OneProgressEach ==
    RanToTheEnd =>
        \A idx \in DOMAIN probe.channels : Cardinality(ProgressAbout(idx)) = 1

\* the last progress_count says done = total
LastCountIsTotal ==
    RanToTheEnd =>
        /\ EmittedAt("progress_count") # {}
        /\ LET last == CHOOSE k \in EmittedAt("progress_count") :
                           \A j \in EmittedAt("progress_count") : j <= k
           IN  probe.emitted[last].done = probe.emitted[last].total

\* a run exists only while _probe_thread is set
OneRunAtATime == probe.pc # "none" <=> edit.thread

\* C29: finished is emitted exactly once on every run and nothing follows it;
\* a run that is neither stopped nor interrupted by an exception gives every
\* channel index exactly one progress status and ends its progress_count
\* signals on done = total; on_test is refused while a run is active and is
\* accepted again after on_probe_finished.
C29_ProbeRunProtocol ==
    /\ [](FinishedOnceAndLast /\ OneProgressEach /\ LastCountIsTotal /\ OneRunAtATime)
    /\ [][(OnTest => ~edit.thread) /\ (OnProbeFinished => ~edit'.thread)]_vars

\* the parts of the protocol that hold on every run
ProbeRunProtocolButCount ==
    /\ [](FinishedOnceAndLast /\ OneProgressEach /\ OneRunAtATime)
    /\ [][(OnTest => ~edit.thread) /\ (OnProbeFinished => ~edit'.thread)]_vars

\* with a url on every channel the count ends on the total
AllWithUrlCounted ==
    (RanToTheEnd /\ \A k \in DOMAIN probe.channels : probe.channels[k].has_url)
        => LastCountIsTotal

\* a complete run whose last progress_count is short of the total
CountShortOfTotal ==
    /\ RanToTheEnd
    /\ EmittedAt("progress_count") # {}
    /\ \A k \in EmittedAt("progress_count") :
           probe.emitted[k].done < probe.emitted[k].total

\* a complete run that emitted no progress_count at all
NoCountAtAll == RanToTheEnd /\ EmittedAt("progress_count") = {}

\* =========================================================================
\* ui/main_window.py: the signals of 'update EPG'
\* =========================================================================

\* a posted call of _load_epg_snapshot, and a queued epg_fail of a run thread
PostedLoad(run) == [what |-> "_load_epg_snapshot", run |-> run]
QueuedFail(run) == [what |-> "epg_fail", run |-> run]

\* a run: the target it was started on, where its thread is, what
\* _load_epg_snapshot completed for it and the signals emitted for it
EpgRun(target, at, done, emitted) ==
    [target |-> target, at |-> at, done |-> done, emitted |-> emitted]

EpgTargets == {"repo", "url"}

InitEpgRun ==
    /\ EmptyStore /\ EmptyEpg /\ NoUpdate /\ NoParse /\ NoBridge /\ NoUi /\ NoRuns

\* on_epg_update with a non-empty target: the buttons are disabled and the
\* thread of run() is started. _maybe_auto_epg_for_salon calls it whatever
\* the state of the button.
EpgUpdateStart(target) ==
    /\ Len(runs) < MaxStarted
    /\ runs' = Append(runs, EpgRun(target, "start", {}, <<>>))
    /\ btn' = FALSE
    /\ UNCHANGED mainq
    /\ UNCHANGED nonRunVars

\* run() on a repository: generate_xmltv_for_tvg_ids has reached
\* npm_grab_site, which reads the output of the grabber it started,
\* "for line in p.stdout"
RunReadsGrabber(id) ==
    /\ id \in DOMAIN runs
    /\ runs[id].target = "repo" /\ runs[id].at = "start"
    /\ runs' = [runs EXCEPT ![id].at = "grab"]
    /\ UNCHANGED <<mainq, btn>>
    /\ UNCHANGED nonRunVars

\* the grabber closes its output: the read loop ends, p.wait(timeout=timeout_s)
\* returns or expires
GrabberClosesOutput(id) ==
    /\ id \in DOMAIN runs
    /\ runs[id].at = "grab"
    /\ runs' = [runs EXCEPT ![id].at = "wait"]
    /\ UNCHANGED <<mainq, btn>>
    /\ UNCHANGED nonRunVars

\* run(): the document was generated or downloaded, and decoded; the call
\* of _load_epg_snapshot is posted to the main thread
RunPostsLoad(id) ==
    /\ id \in DOMAIN runs
    /\ \/ runs[id].target = "url" /\ runs[id].at = "start"
       \/ runs[id].at = "wait"
    /\ runs' = [runs EXCEPT ![id].at = "posted"]
    /\ mainq' = Append(mainq, PostedLoad(id))
    /\ UNCHANGED btn
    /\ UNCHANGED nonRunVars

\* run(): generation, download or decoding raised; "except Exception"
\* emits epg_fail from the run thread
RunEmitsFail(id) ==
    /\ id \in DOMAIN runs
    /\ runs[id].at \in {"start", "wait"}
    /\ runs' = [runs EXCEPT ![id].at = "failed", ![id].emitted = Append(@, "epg_fail")]
    /\ mainq' = Append(mainq, QueuedFail(id))
    /\ UNCHANGED btn
    /\ UNCHANGED nonRunVars

\* on_epg_fail for the signal of a run thread
OnEpgFail ==
    /\ mainq # <<>>
    /\ Head(mainq).what = "epg_fail"
    /\ runs' = [runs EXCEPT ![Head(mainq).run].at = "handled"]
    /\ mainq' = Tail(mainq)
    /\ btn' = TRUE
    /\ UNCHANGED nonRunVars

\* what one call of _load_epg_snapshot can come to: clear_epg raises,
\* upsert_epg_programs raises, or both return
LoadOutcomes == {"clear_epg raised", "upsert_epg_programs raised", "loaded"}

CompletedBy(outcome) ==
    IF outcome = "clear_epg raised" THEN {}
    ELSE IF outcome = "upsert_epg_programs raised" THEN {"clear_epg"}
    ELSE {"clear_epg", "upsert_epg_programs"}

\* the signal _load_epg_snapshot ends on: epg_ok at the end of the try
\* block, epg_fail in "except Exception"
SignalOf(outcome) == IF outcome = "loaded" THEN "epg_ok" ELSE "epg_fail"

\* _load_epg_snapshot on the main thread, for the call a run posted; its
\* signal is handled at once (same thread) by on_epg_ok or on_epg_fail
LoadEpgSnapshot(outcome) ==
    /\ mainq # <<>>
    /\ Head(mainq).what = "_load_epg_snapshot"
    /\ runs' = [runs EXCEPT ![Head(mainq).run] =
                    [@ EXCEPT !.at = "handled",
                              !.done = CompletedBy(outcome),
                              !.emitted = Append(@, SignalOf(outcome))]]
    /\ mainq' = Tail(mainq)
    /\ btn' = TRUE
    /\ UNCHANGED nonRunVars

\* _try_load_epg_cache: _load_epg_snapshot called for a cached file; its
\* epg_ok or epg_fail belongs to no run
LoadEpgCache ==
    /\ btn' = TRUE
    /\ UNCHANGED <<runs, mainq>>
    /\ UNCHANGED nonRunVars

NextEpgRun ==
    \/ \E target \in EpgTargets : EpgUpdateStart(target)
    \/ \E id \in 1..MaxStarted : RunReadsGrabber(id)
    \/ \E id \in 1..MaxStarted : GrabberClosesOutput(id)
    \/ \E id \in 1..MaxStarted : RunPostsLoad(id)
    \/ \E id \in 1..MaxStarted : RunEmitsFail(id)
    \/ OnEpgFail
    \/ \E outcome \in LoadOutcomes : LoadEpgSnapshot(outcome)
    \/ LoadEpgCache

SpecEpgRun == InitEpgRun /\ [][NextEpgRun]_vars

\* the threads of the program go on when they can, and the main thread
\* empties its queue; nothing makes a grabber close its output
ThreadsGoOn ==
    /\ \A id \in 1..MaxStarted :
           WF_vars(RunReadsGrabber(id) \/ RunPostsLoad(id) \/ RunEmitsFail(id))
    /\ WF_vars(OnEpgFail \/ \E outcome \in LoadOutcomes : LoadEpgSnapshot(outcome))

FairEpgRun == SpecEpgRun /\ ThreadsGoOn

\* ... and every grabber ends
FairEpgRunGrabbersEnd ==
    FairEpgRun /\ \A id \in 1..MaxStarted : WF_vars(GrabberClosesOutput(id))

\* the signal of run id has been handled
Handled(id) == id \in DOMAIN runs /\ runs[id].at = "handled"

\* never more than one signal for a run, and none before it is due
AtMostOneSignal ==
    \A id \in DOMAIN runs :
        /\ Len(runs[id].emitted) <= 1
        /\ runs[id].at \in {"failed", "handled"} <=> Len(runs[id].emitted) = 1

\* epg_ok is emitted only when clear_epg and upsert_epg_programs both returned
OkAfterBothCalls ==
    \A id \in DOMAIN runs :
        (\E k \in DOMAIN runs[id].emitted : runs[id].emitted[k] = "epg_ok")
            => runs[id].done = {"clear_epg", "upsert_epg_programs"}

\* on_epg_update disables the button; the handler of the signal of a run
\* enables it
ButtonFollowsSignal ==
    /\ Len(runs') > Len(runs) => ~btn'
    /\ \A id \in DOMAIN runs : (~Handled(id) /\ Handled(id)') => btn'

\* every run gets its signal handled
EveryRunSignalled ==
    \A id \in 1..MaxStarted :
        (id \in DOMAIN runs) ~> (Handled(id) /\ Len(runs[id].emitted) = 1)

\* C30: every on_epg_update that starts a background run eventually leads
\* to exactly one of epg_ok or epg_fail for that run, whatever step fails;
\* the button disabled at the start is enabled again by that signal; and
\* epg_ok is emitted only after clear_epg and upsert_epg_programs have both
\* completed without error.
C30_SignalForEveryRun ==
    /\ EveryRunSignalled
    /\ [](AtMostOneSignal /\ OkAfterBothCalls)
    /\ [][ButtonFollowsSignal]_vars

\* all of it but "eventually"
SignalSafety ==
    /\ [](AtMostOneSignal /\ OkAfterBothCalls)
    /\ [][ButtonFollowsSignal]_vars

\* a run of a remote feed gets its signal handled
EveryDownloadSignalled ==
    \A id \in 1..MaxStarted :
        (id \in DOMAIN runs /\ runs[id].target = "url")
            ~> (Handled(id) /\ Len(runs[id].emitted) = 1)

\* a run is reading the output of a grabber with the button disabled
RunWaitsOnGrabber ==
    ~btn /\ \E id \in DOMAIN runs : runs[id].at = "grab"

\* a run that failed in _load_epg_snapshot after clear_epg
FailedAfterClear ==
    \E id \in DOMAIN runs :
        /\ Handled(id) /\ runs[id].emitted = <<"epg_fail">>
        /\ runs[id].done = {"clear_epg"}
====
